---- MODULE Spec2Model ----
(***************************************************************************)
(* Model of the rv64gc instruction decoder/executor and of the ELF parser. *)
(* Machine integers are bit vectors: a tuple of 0/1, least significant bit *)
(* first, whose length is the width of the Rust integer type (u8, u32,     *)
(* i64, ...).  Bit i of v is v[i + 1].                                     *)
(***************************************************************************)
EXTENDS Integers, Sequences, FiniteSets, TLC

VARIABLES
  pc,       \* Cpu.pc, u64
  xregs,    \* Cpu.xregs, the 32 slots of the integer register file
  fregs,    \* Cpu.fregs, the 32 slots of the float register file
  status,   \* Cpu.status
  mem,      \* Cpu.mmu.memory
  outcome,  \* how the last tick ended: "None", "Ok", a trap kind, "Panic"
  last,     \* the instruction of the last tick: mnemonic, word, address
  prev,     \* the Cpu before the last tick
  nticks,   \* number of ticks so far
  word,     \* u32 handed to the decoder / the format parsers
  found,    \* decoder result: indices of the descriptors matching word
  fmt,      \* format parser results for word
  wphase,   \* which of the pure word functions have been applied
  image,    \* the bytes handed to Elf::from_bytes or Header::from_bytes
  elf,      \* what Elf::from_bytes made of image
  ehdr,     \* what Header::from_bytes made of image
  tab,      \* a Strtab or a Symtab
  call      \* the last call on tab or on the memory, and what it returned

cvars == <<pc, xregs, fregs, status, mem, outcome, last, prev, nticks>>

wvars == <<word, found, fmt, wphase>>

evars == <<image, elf, ehdr>>

tvars == <<tab, call>>

vars == <<pc, xregs, fregs, status, mem, outcome, last, prev, nticks, word,
          found, fmt, wphase, image, elf, ehdr, tab, call>>

----------------------------------------------------------------------------
(* Bit-vector arithmetic of the Rust integer types                         *)

Pow2(n) == 2 ^ n

Bit(v, i) == v[i + 1]

Zeros(w) == [i \in 1..w |-> 0]

Ones(w) == [i \in 1..w |-> 1]

\* the w-bit representation of a natural number n < 2^31
FromNat(n, w) == [i \in 1..w |-> IF i > 31 THEN 0 ELSE (n \div Pow2(i - 1)) % 2]

RECURSIVE ToNat(_)
\* the value of a bit vector of at most 30 bits
ToNat(v) == IF Len(v) = 0 THEN 0 ELSE v[1] + 2 * ToNat(Tail(v))

\* a u32 written as two 16-bit halves, a u64 as four
B32(hi, lo) == FromNat(lo, 16) \o FromNat(hi, 16)

B64(h3, h2, h1, h0) == B32(h1, h0) \o B32(h3, h2)

And(a, b) == [i \in 1..Len(a) |-> a[i] * b[i]]

Or(a, b) == [i \in 1..Len(a) |-> IF a[i] + b[i] > 0 THEN 1 ELSE 0]

Not(a) == [i \in 1..Len(a) |-> 1 - a[i]]

\* a << s and a >> s (logical) on the width of a
Shl(a, s) == [i \in 1..Len(a) |-> IF i - s >= 1 THEN a[i - s] ELSE 0]

Shr(a, s) == [i \in 1..Len(a) |-> IF i + s <= Len(a) THEN a[i + s] ELSE 0]

\* `as` casts: truncation, zero extension (from unsigned), sign extension (from signed)
Trunc(a, w) == SubSeq(a, 1, w)

ZeroExtend(a, w) == [i \in 1..w |-> IF i <= Len(a) THEN a[i] ELSE 0]

SignExtend(a, w) == [i \in 1..w |-> IF i <= Len(a) THEN a[i] ELSE a[Len(a)]]

\* the 16-bit limbs of a 64-bit value, least significant first
Limbs(a) == [k \in 1..4 |-> ToNat(SubSeq(a, 16 * (k - 1) + 1, 16 * k))]

RECURSIVE AddLimbsFrom(_, _, _, _)
\* the sums of limbs k..4, each with the carry of the limb below it
AddLimbsFrom(x, y, k, acc) ==
  IF k > 4 THEN acc
  ELSE AddLimbsFrom(x, y, k + 1,
         Append(acc, x[k] + y[k] + (IF k = 1 THEN 0 ELSE acc[k - 1] \div 65536)))

\* limb-wise sums of two 64-bit values with the carries propagated
AddLimbs(a, b) == AddLimbsFrom(Limbs(a), Limbs(b), 1, <<>>)

\* the 64 bits of four limb sums, carries dropped
FromLimbs(s) ==
  FromNat(s[1] % 65536, 16) \o FromNat(s[2] % 65536, 16)
    \o FromNat(s[3] % 65536, 16) \o FromNat(s[4] % 65536, 16)

\* u64::wrapping_add
WrappingAdd(a, b) == FromLimbs(AddLimbs(a, b))

\* a + b does not fit 64 bits
AddOverflows(a, b) == AddLimbs(a, b)[4] >= 65536

LtLimbs(x, y) ==
  \E k \in 1..4 : x[k] < y[k] /\ \A j \in (k + 1)..4 : x[j] = y[j]

\* unsigned a < b on 64-bit values
LtU(a, b) == LtLimbs(Limbs(a), Limbs(b))

\* signed a < b on 64-bit values
LtS(a, b) == IF a[64] # b[64] THEN a[64] = 1 ELSE LtU(a, b)

----------------------------------------------------------------------------
(* Instruction formats: instruction_format! and its six instantiations     *)

NoSign == -1

\* a slice whose bits are left at bit 0 instead of being moved to start
ParseSlice_at_zero(size, field, s) ==
  LET mask == FromNat(Pow2((s.hi - s.lo) + 1) - 1, 32)
      zero_out_mask == Not(mask)
      copy_bits == And(Shr(size, s.lo), mask)
  IN Or(And(field, zero_out_mask), copy_bits)

\* one `lo:hi @ start` slice applied to the field under construction
ParseSlice(size, field, s) ==
  LET mask == FromNat(Pow2((s.hi - s.lo) + 1) - 1, 32)
      zero_out_mask == Not(Shl(mask, s.start))
      copy_bits == And(Shr(size, s.lo), mask)
      copy_bits_relocated == Shl(copy_bits, s.start)
  IN Or(And(field, zero_out_mask), copy_bits_relocated)

RECURSIVE ParseSlices(_, _, _)
ParseSlices(size, field, slices) ==
  IF slices = <<>> THEN field
  ELSE ParseSlices(size, ParseSlice(size, field, Head(slices)), Tail(slices))

\* a field that starts from 0 whatever the sign bit is
ParseField_no_sign(size, sign, shl, slices) ==
  ParseSlices(size, Shl(Zeros(32), shl), slices)

\* the u32 value of one field before its cast chain
ParseField(size, sign, shl, slices) ==
  LET f0 == IF sign # NoSign /\ Bit(size, sign) = 1 THEN Ones(32) ELSE Zeros(32)
      f1 == Shl(f0, shl)
  IN ParseSlices(size, f1, slices)

Slice(lo, hi, start) == [lo |-> lo, hi |-> hi, start |-> start]

Field_rd(size) == Trunc(ParseField(size, NoSign, 0, <<Slice(7, 11, 0)>>), 8)

Field_rs1(size) == Trunc(ParseField(size, NoSign, 0, <<Slice(15, 19, 0)>>), 8)

Field_rs2(size) == Trunc(ParseField(size, NoSign, 0, <<Slice(20, 24, 0)>>), 8)

FormatR_parse(size) ==
  [rd |-> Field_rd(size), rs1 |-> Field_rs1(size), rs2 |-> Field_rs2(size)]

FormatI_parse(size) ==
  [rd |-> Field_rd(size), rs1 |-> Field_rs1(size),
   imm |-> SignExtend(ParseField(size, 31, 0, <<Slice(20, 31, 0)>>), 64)]

FormatS_parse(size) ==
  [rs1 |-> Field_rs1(size), rs2 |-> Field_rs2(size),
   imm |-> SignExtend(ParseField(size, 31, 0,
             <<Slice(7, 11, 0), Slice(25, 31, 5)>>), 64)]

FormatB_parse(size) ==
  [rs1 |-> Field_rs1(size), rs2 |-> Field_rs2(size),
   imm |-> SignExtend(ParseField(size, 31, 1,
             <<Slice(8, 11, 1), Slice(25, 30, 5), Slice(7, 7, 11),
               Slice(31, 31, 12)>>), 64)]

FormatU_parse(size) ==
  [rd |-> Field_rd(size),
   imm |-> SignExtend(ParseField(size, 31, 12, <<Slice(12, 31, 0)>>), 64)]

FormatJ_parse(size) ==
  [rd |-> Field_rd(size),
   imm |-> SignExtend(ParseField(size, 31, 1,
             <<Slice(21, 30, 1), Slice(20, 20, 11), Slice(12, 19, 12),
               Slice(31, 31, 20)>>), 64)]

----------------------------------------------------------------------------
(* The instruction table and the decoder                                   *)

\* the 37 descriptors of extension RV32I
INSTRUCTIONS_RV32I ==
  <<
    [mask |-> B32(\b0000000000000000, \b0000000001111111),
     reqd |-> B32(\b0000000000000000, \b0000000000110111),
     name |-> "LUI", extension |-> "RV32I"],
    [mask |-> B32(\b0000000000000000, \b0000000001111111),
     reqd |-> B32(\b0000000000000000, \b0000000000010111),
     name |-> "AUIPC", extension |-> "RV32I"],
    [mask |-> B32(\b0000000000000000, \b0000000001111111),
     reqd |-> B32(\b0000000000000000, \b0000000001101111),
     name |-> "JAL", extension |-> "RV32I"],
    [mask |-> B32(\b0000000000000000, \b0111000001111111),
     reqd |-> B32(\b0000000000000000, \b0000000001100111),
     name |-> "JALR", extension |-> "RV32I"],
    [mask |-> B32(\b0000000000000000, \b0111000001111111),
     reqd |-> B32(\b0000000000000000, \b0000000001100011),
     name |-> "BEQ", extension |-> "RV32I"],
    [mask |-> B32(\b0000000000000000, \b0111000001111111),
     reqd |-> B32(\b0000000000000000, \b0001000001100011),
     name |-> "BNQ", extension |-> "RV32I"],
    [mask |-> B32(\b0000000000000000, \b0111000001111111),
     reqd |-> B32(\b0000000000000000, \b0100000001100011),
     name |-> "BLT", extension |-> "RV32I"],
    [mask |-> B32(\b0000000000000000, \b0111000001111111),
     reqd |-> B32(\b0000000000000000, \b0101000001100011),
     name |-> "BGE", extension |-> "RV32I"],
    [mask |-> B32(\b0000000000000000, \b0111000001111111),
     reqd |-> B32(\b0000000000000000, \b0110000001100011),
     name |-> "BLTU", extension |-> "RV32I"],
    [mask |-> B32(\b0000000000000000, \b0111000001111111),
     reqd |-> B32(\b0000000000000000, \b0111000001100011),
     name |-> "BGEU", extension |-> "RV32I"],
    [mask |-> B32(\b0000000000000000, \b0111000001111111),
     reqd |-> B32(\b0000000000000000, \b0000000000000011),
     name |-> "LB", extension |-> "RV32I"],
    [mask |-> B32(\b0000000000000000, \b0111000001111111),
     reqd |-> B32(\b0000000000000000, \b0001000000000011),
     name |-> "LH", extension |-> "RV32I"],
    [mask |-> B32(\b0000000000000000, \b0111000001111111),
     reqd |-> B32(\b0000000000000000, \b0010000000000011),
     name |-> "LW", extension |-> "RV32I"],
    [mask |-> B32(\b0000000000000000, \b0111000001111111),
     reqd |-> B32(\b0000000000000000, \b0100000000000011),
     name |-> "LBU", extension |-> "RV32I"],
    [mask |-> B32(\b0000000000000000, \b0111000001111111),
     reqd |-> B32(\b0000000000000000, \b0101000000000011),
     name |-> "LHU", extension |-> "RV32I"],
    [mask |-> B32(\b0000000000000000, \b0111000001111111),
     reqd |-> B32(\b0000000000000000, \b0000000000100011),
     name |-> "SB", extension |-> "RV32I"],
    [mask |-> B32(\b0000000000000000, \b0111000001111111),
     reqd |-> B32(\b0000000000000000, \b0001000000100011),
     name |-> "SH", extension |-> "RV32I"],
    [mask |-> B32(\b0000000000000000, \b0111000001111111),
     reqd |-> B32(\b0000000000000000, \b0010000000100011),
     name |-> "SW", extension |-> "RV32I"],
    [mask |-> B32(\b0000000000000000, \b0111000001111111),
     reqd |-> B32(\b0000000000000000, \b0000000000010011),
     name |-> "ADDI", extension |-> "RV32I"],
    [mask |-> B32(\b0000000000000000, \b0111000001111111),
     reqd |-> B32(\b0000000000000000, \b0010000000010011),
     name |-> "SLTI", extension |-> "RV32I"],
    [mask |-> B32(\b0000000000000000, \b0111000001111111),
     reqd |-> B32(\b0000000000000000, \b0011000000010011),
     name |-> "SLTIU", extension |-> "RV32I"],
    [mask |-> B32(\b0000000000000000, \b0111000001111111),
     reqd |-> B32(\b0000000000000000, \b0100000000010011),
     name |-> "XORI", extension |-> "RV32I"],
    [mask |-> B32(\b0000000000000000, \b0111000001111111),
     reqd |-> B32(\b0000000000000000, \b0110000000010011),
     name |-> "ORI", extension |-> "RV32I"],
    [mask |-> B32(\b0000000000000000, \b0111000001111111),
     reqd |-> B32(\b0000000000000000, \b0111000000010011),
     name |-> "ANDI", extension |-> "RV32I"],
    [mask |-> B32(\b1111111000000000, \b0111000001111111),
     reqd |-> B32(\b0000000000000000, \b0000000000110011),
     name |-> "ADD", extension |-> "RV32I"],
    [mask |-> B32(\b1111111000000000, \b0111000001111111),
     reqd |-> B32(\b0100000000000000, \b0000000000110011),
     name |-> "SUB", extension |-> "RV32I"],
    [mask |-> B32(\b1111111000000000, \b0111000001111111),
     reqd |-> B32(\b0000000000000000, \b0001000000110011),
     name |-> "SLL", extension |-> "RV32I"],
    [mask |-> B32(\b1111111000000000, \b0111000001111111),
     reqd |-> B32(\b0000000000000000, \b0010000000110011),
     name |-> "SLT", extension |-> "RV32I"],
    [mask |-> B32(\b1111111000000000, \b0111000001111111),
     reqd |-> B32(\b0000000000000000, \b0011000000110011),
     name |-> "SLTU", extension |-> "RV32I"],
    [mask |-> B32(\b1111111000000000, \b0111000001111111),
     reqd |-> B32(\b0000000000000000, \b0100000000110011),
     name |-> "XOR", extension |-> "RV32I"],
    [mask |-> B32(\b1111111000000000, \b0111000001111111),
     reqd |-> B32(\b0000000000000000, \b0101000000110011),
     name |-> "SRL", extension |-> "RV32I"],
    [mask |-> B32(\b1111111000000000, \b0111000001111111),
     reqd |-> B32(\b0100000000000000, \b0101000000110011),
     name |-> "SRA", extension |-> "RV32I"],
    [mask |-> B32(\b1111111000000000, \b0111000001111111),
     reqd |-> B32(\b0000000000000000, \b0110000000110011),
     name |-> "OR", extension |-> "RV32I"],
    [mask |-> B32(\b1111111000000000, \b0111000001111111),
     reqd |-> B32(\b0000000000000000, \b0111000000110011),
     name |-> "AND", extension |-> "RV32I"],
    [mask |-> B32(\b0000000000000000, \b0111000001111111),
     reqd |-> B32(\b0000000000000000, \b0000000000001111),
     name |-> "FENCE", extension |-> "RV32I"],
    [mask |-> B32(\b1111111111111111, \b1111111111111111),
     reqd |-> B32(\b0000000000000000, \b0000000001110011),
     name |-> "ECALL", extension |-> "RV32I"],
    [mask |-> B32(\b1111111111111111, \b1111111111111111),
     reqd |-> B32(\b0000000000010000, \b0000000001110011),
     name |-> "EBREAK", extension |-> "RV32I"]
  >>

\* the 15 descriptors of extension RV64I
INSTRUCTIONS_RV64I ==
  <<
    [mask |-> B32(\b1111111111111111, \b1111111111111111),
     reqd |-> B32(\b0000000000000000, \b0110000000000011),
     name |-> "LWU", extension |-> "RV64I"],
    [mask |-> B32(\b1111111111111111, \b1111111111111111),
     reqd |-> B32(\b0000000000000000, \b0011000000000011),
     name |-> "LD", extension |-> "RV64I"],
    [mask |-> B32(\b0000000000000000, \b0111000001111111),
     reqd |-> B32(\b0000000000000000, \b0011000000100011),
     name |-> "SD", extension |-> "RV64I"],
    [mask |-> B32(\b1111110000000000, \b0111000001111111),
     reqd |-> B32(\b0000000000000000, \b0001000000010011),
     name |-> "SLLI", extension |-> "RV64I"],
    [mask |-> B32(\b1111110000000000, \b0111000001111111),
     reqd |-> B32(\b0000000000000000, \b0101000000010011),
     name |-> "SRLI", extension |-> "RV64I"],
    [mask |-> B32(\b1111110000000000, \b0111000001111111),
     reqd |-> B32(\b0100000000000000, \b0101000000010011),
     name |-> "SRAI", extension |-> "RV64I"],
    [mask |-> B32(\b0000000000000000, \b0111000001111111),
     reqd |-> B32(\b0000000000000000, \b0000000000011011),
     name |-> "ADDIW", extension |-> "RV64I"],
    [mask |-> B32(\b1111111000000000, \b0111000001111111),
     reqd |-> B32(\b0000000000000000, \b0001000000011011),
     name |-> "SLLIW", extension |-> "RV64I"],
    [mask |-> B32(\b1111111000000000, \b0111000001111111),
     reqd |-> B32(\b0000000000000000, \b0101000000011011),
     name |-> "SRLIW", extension |-> "RV64I"],
    [mask |-> B32(\b1111111000000000, \b0111000001111111),
     reqd |-> B32(\b0100000000000000, \b0101000000011011),
     name |-> "SRAIW", extension |-> "RV64I"],
    [mask |-> B32(\b1111111000000000, \b0111000001111111),
     reqd |-> B32(\b0000000000000000, \b0000000000111011),
     name |-> "ADDW", extension |-> "RV64I"],
    [mask |-> B32(\b1111111000000000, \b0111000001111111),
     reqd |-> B32(\b0100000000000000, \b0000000000111011),
     name |-> "SUBW", extension |-> "RV64I"],
    [mask |-> B32(\b1111111000000000, \b0111000001111111),
     reqd |-> B32(\b0000000000000000, \b0001000000111011),
     name |-> "SLLW", extension |-> "RV64I"],
    [mask |-> B32(\b1111111000000000, \b0111000001111111),
     reqd |-> B32(\b0000000000000000, \b0101000000111011),
     name |-> "SRLW", extension |-> "RV64I"],
    [mask |-> B32(\b1111111000000000, \b0111000001111111),
     reqd |-> B32(\b0100000000000000, \b0101000000111011),
     name |-> "SRAW", extension |-> "RV64I"]
  >>

\* the 1 descriptors of extension Zifencei
INSTRUCTIONS_Zifencei ==
  <<
    [mask |-> B32(\b0000000000000000, \b0111000001111111),
     reqd |-> B32(\b0000000000000000, \b0001000000001111),
     name |-> "FENCE.I", extension |-> "Zifencei"]
  >>

\* the 6 descriptors of extension Zicsr
INSTRUCTIONS_Zicsr ==
  <<
    [mask |-> B32(\b0000000000000000, \b0111000001111111),
     reqd |-> B32(\b0000000000000000, \b0001000001110011),
     name |-> "CSRRW", extension |-> "Zicsr"],
    [mask |-> B32(\b0000000000000000, \b0111000001111111),
     reqd |-> B32(\b0000000000000000, \b0010000001110011),
     name |-> "CSRRS", extension |-> "Zicsr"],
    [mask |-> B32(\b0000000000000000, \b0111000001111111),
     reqd |-> B32(\b0000000000000000, \b0011000001110011),
     name |-> "CSRRC", extension |-> "Zicsr"],
    [mask |-> B32(\b0000000000000000, \b0111000001111111),
     reqd |-> B32(\b0000000000000000, \b0101000001110011),
     name |-> "CSRRWI", extension |-> "Zicsr"],
    [mask |-> B32(\b0000000000000000, \b0111000001111111),
     reqd |-> B32(\b0000000000000000, \b0110000001110011),
     name |-> "CSRRSI", extension |-> "Zicsr"],
    [mask |-> B32(\b0000000000000000, \b0111000001111111),
     reqd |-> B32(\b0000000000000000, \b0111000001110011),
     name |-> "CSRRCI", extension |-> "Zicsr"]
  >>

\* the 8 descriptors of extension RV32M
INSTRUCTIONS_RV32M ==
  <<
    [mask |-> B32(\b1111111000000000, \b0111000001111111),
     reqd |-> B32(\b0000001000000000, \b0000000000110011),
     name |-> "MUL", extension |-> "RV32M"],
    [mask |-> B32(\b1111111000000000, \b0111000001111111),
     reqd |-> B32(\b0000001000000000, \b0001000000110011),
     name |-> "MULH", extension |-> "RV32M"],
    [mask |-> B32(\b1111111000000000, \b0111000001111111),
     reqd |-> B32(\b0000001000000000, \b0010000000110011),
     name |-> "MULHSU", extension |-> "RV32M"],
    [mask |-> B32(\b1111111000000000, \b0111000001111111),
     reqd |-> B32(\b0000001000000000, \b0011000000110011),
     name |-> "MULHU", extension |-> "RV32M"],
    [mask |-> B32(\b1111111000000000, \b0111000001111111),
     reqd |-> B32(\b0000001000000000, \b0100000000110011),
     name |-> "DIV", extension |-> "RV32M"],
    [mask |-> B32(\b1111111000000000, \b0111000001111111),
     reqd |-> B32(\b0000001000000000, \b0101000000110011),
     name |-> "DIVU", extension |-> "RV32M"],
    [mask |-> B32(\b1111111000000000, \b0111000001111111),
     reqd |-> B32(\b0000001000000000, \b0110000000110011),
     name |-> "REM", extension |-> "RV32M"],
    [mask |-> B32(\b1111111000000000, \b0111000001111111),
     reqd |-> B32(\b0000001000000000, \b0111000000110011),
     name |-> "REMU", extension |-> "RV32M"]
  >>

\* the 5 descriptors of extension RV64M
INSTRUCTIONS_RV64M ==
  <<
    [mask |-> B32(\b1111111000000000, \b0111000001111111),
     reqd |-> B32(\b0000001000000000, \b0000000000111011),
     name |-> "MULW", extension |-> "RV64M"],
    [mask |-> B32(\b1111111000000000, \b0111000001111111),
     reqd |-> B32(\b0000001000000000, \b0100000000111011),
     name |-> "DIVW", extension |-> "RV64M"],
    [mask |-> B32(\b1111111000000000, \b0111000001111111),
     reqd |-> B32(\b0000001000000000, \b0101000000111011),
     name |-> "DIVUW", extension |-> "RV64M"],
    [mask |-> B32(\b1111111000000000, \b0111000001111111),
     reqd |-> B32(\b0000001000000000, \b0110000000111011),
     name |-> "REMW", extension |-> "RV64M"],
    [mask |-> B32(\b1111111000000000, \b0111000001111111),
     reqd |-> B32(\b0000001000000000, \b0111000000111011),
     name |-> "REMUW", extension |-> "RV64M"]
  >>

\* the 11 descriptors of extension RV32A
INSTRUCTIONS_RV32A ==
  <<
    [mask |-> B32(\b1111100111110000, \b0111000001111111),
     reqd |-> B32(\b0001000000000000, \b0010000000101111),
     name |-> "LR.W", extension |-> "RV32A"],
    [mask |-> B32(\b1111100000000000, \b0111000001111111),
     reqd |-> B32(\b0001100000000000, \b0010000000101111),
     name |-> "SC.W", extension |-> "RV32A"],
    [mask |-> B32(\b1111100000000000, \b0111000001111111),
     reqd |-> B32(\b0000100000000000, \b0010000000101111),
     name |-> "AMOSWAP.W", extension |-> "RV32A"],
    [mask |-> B32(\b1111100000000000, \b0111000001111111),
     reqd |-> B32(\b0000000000000000, \b0010000000101111),
     name |-> "AMOADD.W", extension |-> "RV32A"],
    [mask |-> B32(\b1111100000000000, \b0111000001111111),
     reqd |-> B32(\b0010000000000000, \b0010000000101111),
     name |-> "AMOXOR.W", extension |-> "RV32A"],
    [mask |-> B32(\b1111100000000000, \b0111000001111111),
     reqd |-> B32(\b0110000000000000, \b0010000000101111),
     name |-> "AMOAND.W", extension |-> "RV32A"],
    [mask |-> B32(\b1111100000000000, \b0111000001111111),
     reqd |-> B32(\b0100000000000000, \b0010000000101111),
     name |-> "AMOOR.W", extension |-> "RV32A"],
    [mask |-> B32(\b1111100000000000, \b0111000001111111),
     reqd |-> B32(\b1000000000000000, \b0010000000101111),
     name |-> "AMOMIN.W", extension |-> "RV32A"],
    [mask |-> B32(\b1111100000000000, \b0111000001111111),
     reqd |-> B32(\b1010000000000000, \b0010000000101111),
     name |-> "AMOMAX.W", extension |-> "RV32A"],
    [mask |-> B32(\b1111100000000000, \b0111000001111111),
     reqd |-> B32(\b1100000000000000, \b0010000000101111),
     name |-> "AMOMINU.W", extension |-> "RV32A"],
    [mask |-> B32(\b1111100000000000, \b0111000001111111),
     reqd |-> B32(\b1110000000000000, \b0010000000101111),
     name |-> "AMOMAXU.W", extension |-> "RV32A"]
  >>

\* the 11 descriptors of extension RV64A
INSTRUCTIONS_RV64A ==
  <<
    [mask |-> B32(\b1111100111110000, \b0111000001111111),
     reqd |-> B32(\b0001000000000000, \b0011000000101111),
     name |-> "LR.D", extension |-> "RV64A"],
    [mask |-> B32(\b1111100000000000, \b0111000001111111),
     reqd |-> B32(\b0001100000000000, \b0011000000101111),
     name |-> "SC.D", extension |-> "RV64A"],
    [mask |-> B32(\b1111100000000000, \b0111000001111111),
     reqd |-> B32(\b0000100000000000, \b0011000000101111),
     name |-> "AMOSWAP.D", extension |-> "RV64A"],
    [mask |-> B32(\b1111100000000000, \b0111000001111111),
     reqd |-> B32(\b0000000000000000, \b0011000000101111),
     name |-> "AMOADD.D", extension |-> "RV64A"],
    [mask |-> B32(\b1111100000000000, \b0111000001111111),
     reqd |-> B32(\b0010000000000000, \b0011000000101111),
     name |-> "AMOXOR.D", extension |-> "RV64A"],
    [mask |-> B32(\b1111100000000000, \b0111000001111111),
     reqd |-> B32(\b0110000000000000, \b0011000000101111),
     name |-> "AMOAND.D", extension |-> "RV64A"],
    [mask |-> B32(\b1111100000000000, \b0111000001111111),
     reqd |-> B32(\b0100000000000000, \b0011000000101111),
     name |-> "AMOOR.D", extension |-> "RV64A"],
    [mask |-> B32(\b1111100000000000, \b0111000001111111),
     reqd |-> B32(\b1000000000000000, \b0011000000101111),
     name |-> "AMOMIN.D", extension |-> "RV64A"],
    [mask |-> B32(\b1111100000000000, \b0111000001111111),
     reqd |-> B32(\b1010000000000000, \b0011000000101111),
     name |-> "AMOMAX.D", extension |-> "RV64A"],
    [mask |-> B32(\b1111100000000000, \b0111000001111111),
     reqd |-> B32(\b1100000000000000, \b0011000000101111),
     name |-> "AMOMINU.D", extension |-> "RV64A"],
    [mask |-> B32(\b1111100000000000, \b0111000001111111),
     reqd |-> B32(\b1110000000000000, \b0011000000101111),
     name |-> "AMOMAXU.D", extension |-> "RV64A"]
  >>

\* the 26 descriptors of extension RV32F
INSTRUCTIONS_RV32F ==
  <<
    [mask |-> B32(\b0000000000000000, \b0111000001111111),
     reqd |-> B32(\b0000000000000000, \b0010000000000111),
     name |-> "FLW", extension |-> "RV32F"],
    [mask |-> B32(\b0000000000000000, \b0111000001111111),
     reqd |-> B32(\b0000000000000000, \b0010000000100111),
     name |-> "FSW", extension |-> "RV32F"],
    [mask |-> B32(\b0000011000000000, \b0000000001111111),
     reqd |-> B32(\b0000000000000000, \b0000000001000011),
     name |-> "FMADD.S", extension |-> "RV32F"],
    [mask |-> B32(\b0000011000000000, \b0000000001111111),
     reqd |-> B32(\b0000000000000000, \b0000000001000111),
     name |-> "FMSUB.S", extension |-> "RV32F"],
    [mask |-> B32(\b0000011000000000, \b0000000001111111),
     reqd |-> B32(\b0000000000000000, \b0000000001001011),
     name |-> "FNMSUB.S", extension |-> "RV32F"],
    [mask |-> B32(\b0000011000000000, \b0000000001111111),
     reqd |-> B32(\b0000000000000000, \b0000000001001111),
     name |-> "FNMADD.S", extension |-> "RV32F"],
    [mask |-> B32(\b1111111000000000, \b0000000001111111),
     reqd |-> B32(\b0000000000000000, \b0000000001010011),
     name |-> "FADD.S", extension |-> "RV32F"],
    [mask |-> B32(\b1111111000000000, \b0000000001111111),
     reqd |-> B32(\b0000100000000000, \b0000000001010011),
     name |-> "FSUB.S", extension |-> "RV32F"],
    [mask |-> B32(\b1111111000000000, \b0000000001111111),
     reqd |-> B32(\b0001000000000000, \b0000000001010011),
     name |-> "FMUL.S", extension |-> "RV32F"],
    [mask |-> B32(\b1111111000000000, \b0000000001111111),
     reqd |-> B32(\b0001100000000000, \b0000000001010011),
     name |-> "FDIV.S", extension |-> "RV32F"],
    [mask |-> B32(\b1111111111110000, \b0000000001111111),
     reqd |-> B32(\b0101100000000000, \b0000000001010011),
     name |-> "FSQRT.S", extension |-> "RV32F"],
    [mask |-> B32(\b1111111000000000, \b0111000001111111),
     reqd |-> B32(\b0010000000000000, \b0000000001010011),
     name |-> "FSGNJ.S", extension |-> "RV32F"],
    [mask |-> B32(\b1111111000000000, \b0111000001111111),
     reqd |-> B32(\b0010000000000000, \b0001000001010011),
     name |-> "FSGNJN.S", extension |-> "RV32F"],
    [mask |-> B32(\b1111111000000000, \b0111000001111111),
     reqd |-> B32(\b0010000000000000, \b0010000001010011),
     name |-> "FSGNJX.S", extension |-> "RV32F"],
    [mask |-> B32(\b1111111000000000, \b0111000001111111),
     reqd |-> B32(\b0010100000000000, \b0000000001010011),
     name |-> "FMIN.S", extension |-> "RV32F"],
    [mask |-> B32(\b1111111000000000, \b0111000001111111),
     reqd |-> B32(\b0010100000000000, \b0001000001010011),
     name |-> "FMAX.S", extension |-> "RV32F"],
    [mask |-> B32(\b1111111111110000, \b0000000001111111),
     reqd |-> B32(\b1100000000000000, \b0000000001010011),
     name |-> "FCVT.W.S", extension |-> "RV32F"],
    [mask |-> B32(\b1111111111110000, \b0000000001111111),
     reqd |-> B32(\b1100000000010000, \b0000000001010011),
     name |-> "FCVT.WU.S", extension |-> "RV32F"],
    [mask |-> B32(\b1111111111110000, \b0111000001111111),
     reqd |-> B32(\b1110000000000000, \b0000000001010011),
     name |-> "FMV.X.S", extension |-> "RV32F"],
    [mask |-> B32(\b1111111000000000, \b0111000001111111),
     reqd |-> B32(\b1010000000000000, \b0010000001010011),
     name |-> "FEQ.S", extension |-> "RV32F"],
    [mask |-> B32(\b1111111000000000, \b0111000001111111),
     reqd |-> B32(\b1010000000000000, \b0001000001010011),
     name |-> "FLT.S", extension |-> "RV32F"],
    [mask |-> B32(\b1111111000000000, \b0111000001111111),
     reqd |-> B32(\b1010000000000000, \b0000000001010011),
     name |-> "FLE.S", extension |-> "RV32F"],
    [mask |-> B32(\b1111111111110000, \b0111000001111111),
     reqd |-> B32(\b1110000000000000, \b0001000001010011),
     name |-> "FCLASS.S", extension |-> "RV32F"],
    [mask |-> B32(\b1111111111110000, \b0000000001111111),
     reqd |-> B32(\b1101000000000000, \b0000000001010011),
     name |-> "FCVT.S.W", extension |-> "RV32F"],
    [mask |-> B32(\b1111111111110000, \b0000000001111111),
     reqd |-> B32(\b1101000000010000, \b0000000001010011),
     name |-> "FCVT.S.WU", extension |-> "RV32F"],
    [mask |-> B32(\b1111111111110000, \b0111000001111111),
     reqd |-> B32(\b1111000000000000, \b0000000001010011),
     name |-> "FMV.W.X", extension |-> "RV32F"]
  >>

\* the 4 descriptors of extension RV64F
INSTRUCTIONS_RV64F ==
  <<
    [mask |-> B32(\b1111111111110000, \b0000000001111111),
     reqd |-> B32(\b1100000000100000, \b0000000001010011),
     name |-> "FCVT.L.S", extension |-> "RV64F"],
    [mask |-> B32(\b1111111111110000, \b0000000001111111),
     reqd |-> B32(\b1100000000110000, \b0000000001010011),
     name |-> "FCVT.LU.S", extension |-> "RV64F"],
    [mask |-> B32(\b1111111111110000, \b0000000001111111),
     reqd |-> B32(\b1101000000100000, \b0000000001010011),
     name |-> "FCVT.S.L", extension |-> "RV64F"],
    [mask |-> B32(\b1111111111110000, \b0000000001111111),
     reqd |-> B32(\b1101000000110000, \b0000000001010011),
     name |-> "FCVT.S.LU", extension |-> "RV64F"]
  >>

\* the 26 descriptors of extension RV32D
INSTRUCTIONS_RV32D ==
  <<
    [mask |-> B32(\b0000000000000000, \b0111000001111111),
     reqd |-> B32(\b0000000000000000, \b0011000000000111),
     name |-> "FLD", extension |-> "RV32D"],
    [mask |-> B32(\b0000000000000000, \b0111000001111111),
     reqd |-> B32(\b0000000000000000, \b0011000000100111),
     name |-> "FSD", extension |-> "RV32D"],
    [mask |-> B32(\b0000011000000000, \b0000000001111111),
     reqd |-> B32(\b0000001000000000, \b0000000001000011),
     name |-> "FMADD.D", extension |-> "RV32D"],
    [mask |-> B32(\b0000011000000000, \b0000000001111111),
     reqd |-> B32(\b0000001000000000, \b0000000001000111),
     name |-> "FMSUB.D", extension |-> "RV32D"],
    [mask |-> B32(\b0000011000000000, \b0000000001111111),
     reqd |-> B32(\b0000001000000000, \b0000000001001011),
     name |-> "FNMSUB.D", extension |-> "RV32D"],
    [mask |-> B32(\b0000011000000000, \b0000000001111111),
     reqd |-> B32(\b0000001000000000, \b0000000001001111),
     name |-> "FNMADD.D", extension |-> "RV32D"],
    [mask |-> B32(\b1111111000000000, \b0000000001111111),
     reqd |-> B32(\b0000001000000000, \b0000000001010011),
     name |-> "FADD.D", extension |-> "RV32D"],
    [mask |-> B32(\b1111111000000000, \b0000000001111111),
     reqd |-> B32(\b0000101000000000, \b0000000001010011),
     name |-> "FSUB.D", extension |-> "RV32D"],
    [mask |-> B32(\b1111111000000000, \b0000000001111111),
     reqd |-> B32(\b0001001000000000, \b0000000001010011),
     name |-> "FMUL.D", extension |-> "RV32D"],
    [mask |-> B32(\b1111111000000000, \b0000000001111111),
     reqd |-> B32(\b0001101000000000, \b0000000001010011),
     name |-> "FDIV.D", extension |-> "RV32D"],
    [mask |-> B32(\b1111111111110000, \b0000000001111111),
     reqd |-> B32(\b0101101000000000, \b0000000001010011),
     name |-> "FSQRT.D", extension |-> "RV32D"],
    [mask |-> B32(\b1111111000000000, \b0111000001111111),
     reqd |-> B32(\b0010001000000000, \b0000000001010011),
     name |-> "FSGNJ.D", extension |-> "RV32D"],
    [mask |-> B32(\b1111111000000000, \b0111000001111111),
     reqd |-> B32(\b0010001000000000, \b0001000001010011),
     name |-> "FSGNJN.D", extension |-> "RV32D"],
    [mask |-> B32(\b1111111000000000, \b0111000001111111),
     reqd |-> B32(\b0010001000000000, \b0010000001010011),
     name |-> "FSGNJX.D", extension |-> "RV32D"],
    [mask |-> B32(\b1111111000000000, \b0111000001111111),
     reqd |-> B32(\b0010101000000000, \b0000000001010011),
     name |-> "FMIN.D", extension |-> "RV32D"],
    [mask |-> B32(\b1111111000000000, \b0111000001111111),
     reqd |-> B32(\b0010101000000000, \b0001000001010011),
     name |-> "FMAX.D", extension |-> "RV32D"],
    [mask |-> B32(\b1111111111110000, \b0000000001111111),
     reqd |-> B32(\b0100000000010000, \b0000000001010011),
     name |-> "FCVT.S.D", extension |-> "RV32D"],
    [mask |-> B32(\b1111111111110000, \b0000000001111111),
     reqd |-> B32(\b0100001000000000, \b0000000001010011),
     name |-> "FCVT.D.S", extension |-> "RV32D"],
    [mask |-> B32(\b1111111000000000, \b0111000001111111),
     reqd |-> B32(\b1010001000000000, \b0010000001010011),
     name |-> "FEQ.D", extension |-> "RV32D"],
    [mask |-> B32(\b1111111000000000, \b0111000001111111),
     reqd |-> B32(\b1010001000000000, \b0001000001010011),
     name |-> "FLT.D", extension |-> "RV32D"],
    [mask |-> B32(\b1111111000000000, \b0111000001111111),
     reqd |-> B32(\b1010001000000000, \b0000000001010011),
     name |-> "FLE.D", extension |-> "RV32D"],
    [mask |-> B32(\b1111111111110000, \b0111000001111111),
     reqd |-> B32(\b1110001000000000, \b0001000001010011),
     name |-> "FCLASS.D", extension |-> "RV32D"],
    [mask |-> B32(\b1111111111110000, \b0000000001111111),
     reqd |-> B32(\b1100001000000000, \b0000000001010011),
     name |-> "FCVT.W.D", extension |-> "RV32D"],
    [mask |-> B32(\b1111111111110000, \b0000000001111111),
     reqd |-> B32(\b1100001000010000, \b0000000001010011),
     name |-> "FCVT.WU.D", extension |-> "RV32D"],
    [mask |-> B32(\b1111111111110000, \b0000000001111111),
     reqd |-> B32(\b1101001000000000, \b0000000001010011),
     name |-> "FCVT.D.W", extension |-> "RV32D"],
    [mask |-> B32(\b1111111111110000, \b0000000001111111),
     reqd |-> B32(\b1101001000010000, \b0000000001010011),
     name |-> "FCVT.D.WU", extension |-> "RV32D"]
  >>

\* the 6 descriptors of extension RV64D
INSTRUCTIONS_RV64D ==
  <<
    [mask |-> B32(\b1111111111110000, \b0000000001111111),
     reqd |-> B32(\b1100001000100000, \b0000000001010011),
     name |-> "FCVT.L.D", extension |-> "RV64D"],
    [mask |-> B32(\b1111111111110000, \b0000000001111111),
     reqd |-> B32(\b1100001000110000, \b0000000001010011),
     name |-> "FCVT.LU.D", extension |-> "RV64D"],
    [mask |-> B32(\b1111111111110000, \b0111000001111111),
     reqd |-> B32(\b1110001000000000, \b0000000001010011),
     name |-> "FMV.X.D", extension |-> "RV64D"],
    [mask |-> B32(\b1111111111110000, \b0000000001111111),
     reqd |-> B32(\b1101001000100000, \b0000000001010011),
     name |-> "FCVT.D.L", extension |-> "RV64D"],
    [mask |-> B32(\b1111111111110000, \b0000000001111111),
     reqd |-> B32(\b1101001000110000, \b0000000001010011),
     name |-> "FCVT.D.LU", extension |-> "RV64D"],
    [mask |-> B32(\b1111111111110000, \b0111000001111111),
     reqd |-> B32(\b1111001000000000, \b0000000001010011),
     name |-> "FMV.D.X", extension |-> "RV64D"]
  >>

\* the 2 descriptors of extension Privileged
INSTRUCTIONS_Privileged ==
  <<
    [mask |-> B32(\b1111111111111111, \b1111111111111111),
     reqd |-> B32(\b0001000000100000, \b0000000001110011),
     name |-> "SRET", extension |-> "Privileged"],
    [mask |-> B32(\b1111111111111111, \b1111111111111111),
     reqd |-> B32(\b0011000000100000, \b0000000001110011),
     name |-> "MRET", extension |-> "Privileged"]
  >>

\* a table whose first descriptor requires bits outside its mask
INSTRUCTIONS_stray_required ==
  [INSTRUCTIONS_RV32I EXCEPT ![1].reqd = Ones(32)]
  \o INSTRUCTIONS_RV64I
  \o INSTRUCTIONS_Zifencei
  \o INSTRUCTIONS_Zicsr
  \o INSTRUCTIONS_RV32M
  \o INSTRUCTIONS_RV64M
  \o INSTRUCTIONS_RV32A
  \o INSTRUCTIONS_RV64A
  \o INSTRUCTIONS_RV32F
  \o INSTRUCTIONS_RV64F
  \o INSTRUCTIONS_RV32D
  \o INSTRUCTIONS_RV64D
  \o INSTRUCTIONS_Privileged

\* a table whose second descriptor repeats the mnemonic of the first
INSTRUCTIONS_repeated_name ==
  [INSTRUCTIONS_RV32I EXCEPT ![2].name = INSTRUCTIONS_RV32I[1].name]
  \o INSTRUCTIONS_RV64I
  \o INSTRUCTIONS_Zifencei
  \o INSTRUCTIONS_Zicsr
  \o INSTRUCTIONS_RV32M
  \o INSTRUCTIONS_RV64M
  \o INSTRUCTIONS_RV32A
  \o INSTRUCTIONS_RV64A
  \o INSTRUCTIONS_RV32F
  \o INSTRUCTIONS_RV64F
  \o INSTRUCTIONS_RV32D
  \o INSTRUCTIONS_RV64D
  \o INSTRUCTIONS_Privileged

INSTRUCTIONS ==
  INSTRUCTIONS_RV32I
  \o INSTRUCTIONS_RV64I
  \o INSTRUCTIONS_Zifencei
  \o INSTRUCTIONS_Zicsr
  \o INSTRUCTIONS_RV32M
  \o INSTRUCTIONS_RV64M
  \o INSTRUCTIONS_RV32A
  \o INSTRUCTIONS_RV64A
  \o INSTRUCTIONS_RV32F
  \o INSTRUCTIONS_RV64F
  \o INSTRUCTIONS_RV32D
  \o INSTRUCTIONS_RV64D
  \o INSTRUCTIONS_Privileged

\* a decoder that compares the required bits only
Matches_required_only(w, instr) == And(w, instr.reqd) = instr.reqd

\* word & instr.mask == instr.reqd
Matches(w, instr) == And(w, instr.mask) = instr.reqd

\* every descriptor that matches w, in table order
MatchingIndices(w) ==
  SelectSeq([i \in 1..Len(INSTRUCTIONS) |-> i],
            LAMBDA i : Matches(w, INSTRUCTIONS[i]))

FirstOf(m) == IF m = <<>> THEN 0 ELSE Head(m)

\* a decode that falls back to the first descriptor when nothing matches
Decode_or_first(w) ==
  IF MatchingIndices(w) = <<>> THEN 1 ELSE FirstOf(MatchingIndices(w))

\* first-match decoding: the index of the descriptor, 0 when there is none
Decode(w) == FirstOf(MatchingIndices(w))

\* tests::valid_masks: both assertions hold for every descriptor
valid_masks ==
  \A i \in DOMAIN INSTRUCTIONS :
    /\ And(INSTRUCTIONS[i].reqd, INSTRUCTIONS[i].mask) = INSTRUCTIONS[i].reqd
    /\ Or(INSTRUCTIONS[i].reqd, INSTRUCTIONS[i].mask) = INSTRUCTIONS[i].mask

\* *names.entry(instr.name).or_default() += 1, over the whole table
names_count(name) ==
  Cardinality({i \in DOMAIN INSTRUCTIONS : INSTRUCTIONS[i].name = name})

\* the names the test reports: those counted more than once
duplicates ==
  {name \in {INSTRUCTIONS[i].name : i \in DOMAIN INSTRUCTIONS} :
     names_count(name) > 1}

\* tests::unique_instruction_names: assert!(!duplicates)
unique_instruction_names == duplicates = {}

----------------------------------------------------------------------------
(* Memory: a Vec<u8>.  data holds the bytes of the addresses written so    *)
(* far; every other byte below len still has the 0 the vector was created  *)
(* with.                                                                   *)

ByteAt(m, a) == IF a \in DOMAIN m.data THEN m.data[a] ELSE 0

AddrAdd(a, k) == WrappingAdd(a, FromNat(k, 64))

\* start..end is a valid range of the vector; indexing by anything else panics
InRange(m, addr, n) ==
  /\ ~AddOverflows(addr, FromNat(n, 64))
  /\ ~LtU(m.len, AddrAdd(addr, n))

Memory_read(m, addr, n) ==
  IF InRange(m, addr, n)
  THEN [ok |-> TRUE, data |-> [k \in 1..n |-> ByteAt(m, AddrAdd(addr, k - 1))]]
  ELSE [ok |-> FALSE, data |-> <<>>]

Memory_write(m, addr, data) ==
  IF InRange(m, addr, Len(data))
  THEN LET written == {AddrAdd(addr, k - 1) : k \in 1..Len(data)}
           index(a) == CHOOSE k \in 1..Len(data) : AddrAdd(addr, k - 1) = a
       IN [ok |-> TRUE,
           mem |-> [m EXCEPT !.data =
                      [a \in (DOMAIN m.data) \cup written |->
                         IF a \in written THEN data[index(a)] ELSE m.data[a]]]]
  ELSE [ok |-> FALSE, mem |-> m]

RECURSIVE from_le_bytes(_)
from_le_bytes(buf) ==
  IF buf = <<>> THEN <<>> ELSE FromNat(Head(buf), 8) \o from_le_bytes(Tail(buf))

to_le_bytes(value) ==
  [k \in 1..(Len(value) \div 8) |-> ToNat(SubSeq(value, 8 * (k - 1) + 1, 8 * k))]

ReadResult(r) == [ok |-> r.ok, val |-> from_le_bytes(r.data)]

\* read!(.. : le) and write!(.. : le) of width size_of::<$size>()
ReadLe(m, addr, n) == ReadResult(Memory_read(m, addr, n))

WriteLe(m, addr, value) == Memory_write(m, addr, to_le_bytes(value))

read_u8(m, addr) == ReadLe(m, addr, 1)

read_u16_le(m, addr) == ReadLe(m, addr, 2)

read_u32_le(m, addr) == ReadLe(m, addr, 4)

write_u8(m, addr, value) == WriteLe(m, addr, value)

write_u16_le(m, addr, value) == WriteLe(m, addr, value)

write_u32_le(m, addr, value) == WriteLe(m, addr, value)

----------------------------------------------------------------------------
(* The semantic functions of the instruction table.  c is the Cpu (pc      *)
(* already advanced past the instruction), addr the instruction's address. *)

resolve_xreg(reg) == ToNat(reg)

Ok(c) == [cpu |-> c, res |-> "Ok"]

Panic(c) == [cpu |-> c, res |-> "Panic"]

Op_LUI(c, w, addr) ==
  LET f == FormatU_parse(w)
      rd == resolve_xreg(f.rd)
  IN Ok([c EXCEPT !.xregs[rd] = f.imm])

Op_AUIPC(c, w, addr) ==
  LET f == FormatU_parse(w)
      rd == resolve_xreg(f.rd)
  IN Ok([c EXCEPT !.xregs[rd] = WrappingAdd(c.pc, f.imm)])

\* a JAL that jumps relative to the advanced pc
Op_JAL_from_next_pc(c, w, addr) ==
  LET f == FormatJ_parse(w)
      rd == resolve_xreg(f.rd)
  IN Ok([c EXCEPT !.xregs[rd] = c.pc, !.pc = WrappingAdd(c.pc, f.imm)])

Op_JAL(c, w, addr) ==
  LET f == FormatJ_parse(w)
      rd == resolve_xreg(f.rd)
  IN Ok([c EXCEPT !.xregs[rd] = c.pc, !.pc = WrappingAdd(addr, f.imm)])

\* a JALR that writes the link register before it reads rs1
Op_JALR_link_first(c, w, addr) ==
  LET f == FormatI_parse(w)
      rd == resolve_xreg(f.rd)
      rs1 == resolve_xreg(f.rs1)
      linked == [c EXCEPT !.xregs[rd] = c.pc]
      target == And(WrappingAdd(f.imm, linked.xregs[rs1]), Not(FromNat(1, 64)))
  IN Ok([linked EXCEPT !.pc = target])

Op_JALR(c, w, addr) ==
  LET f == FormatI_parse(w)
      rd == resolve_xreg(f.rd)
      rs1 == resolve_xreg(f.rs1)
      target == And(WrappingAdd(f.imm, c.xregs[rs1]), Not(FromNat(1, 64)))
  IN Ok([c EXCEPT !.xregs[rd] = c.pc, !.pc = target])

Op_BEQ(c, w, addr) ==
  LET f == FormatB_parse(w)
      rs1 == resolve_xreg(f.rs1)
      rs2 == resolve_xreg(f.rs2)
  IN IF c.xregs[rs1] = c.xregs[rs2]
     THEN Ok([c EXCEPT !.pc = WrappingAdd(addr, f.imm)])
     ELSE Ok(c)

Op_BNQ(c, w, addr) ==
  LET f == FormatB_parse(w)
      rs1 == resolve_xreg(f.rs1)
      rs2 == resolve_xreg(f.rs2)
  IN IF c.xregs[rs1] # c.xregs[rs2]
     THEN Ok([c EXCEPT !.pc = WrappingAdd(addr, f.imm)])
     ELSE Ok(c)

Op_BLT(c, w, addr) ==
  LET f == FormatB_parse(w)
      rs1 == resolve_xreg(f.rs1)
      rs2 == resolve_xreg(f.rs2)
  IN IF LtS(c.xregs[rs1], c.xregs[rs2])
     THEN Ok([c EXCEPT !.pc = WrappingAdd(addr, f.imm)])
     ELSE Ok(c)

\* (rs1 as u64) > (rs2 as u64)
Op_BGE(c, w, addr) ==
  LET f == FormatB_parse(w)
      rs1 == resolve_xreg(f.rs1)
      rs2 == resolve_xreg(f.rs2)
  IN IF LtU(c.xregs[rs2], c.xregs[rs1])
     THEN Ok([c EXCEPT !.pc = WrappingAdd(addr, f.imm)])
     ELSE Ok(c)

\* a BLTU with its operands swapped
Op_BLTU_swapped(c, w, addr) ==
  LET f == FormatB_parse(w)
      rs1 == resolve_xreg(f.rs1)
      rs2 == resolve_xreg(f.rs2)
  IN IF LtU(c.xregs[rs2], c.xregs[rs1])
     THEN Ok([c EXCEPT !.pc = WrappingAdd(addr, f.imm)])
     ELSE Ok(c)

Op_BLTU(c, w, addr) ==
  LET f == FormatB_parse(w)
      rs1 == resolve_xreg(f.rs1)
      rs2 == resolve_xreg(f.rs2)
  IN IF LtU(c.xregs[rs1], c.xregs[rs2])
     THEN Ok([c EXCEPT !.pc = WrappingAdd(addr, f.imm)])
     ELSE Ok(c)

\* (rs1 as u64) > (rs2 as u64)
Op_BGEU(c, w, addr) ==
  LET f == FormatB_parse(w)
      rs1 == resolve_xreg(f.rs1)
      rs2 == resolve_xreg(f.rs2)
  IN IF LtU(c.xregs[rs2], c.xregs[rs1])
     THEN Ok([c EXCEPT !.pc = WrappingAdd(addr, f.imm)])
     ELSE Ok(c)

Op_LB(c, w, addr) ==
  LET f == FormatI_parse(w)
      rd == resolve_xreg(f.rd)
      rs1 == resolve_xreg(f.rs1)
      rs1_value == c.xregs[rs1]
      a == WrappingAdd(rs1_value, f.imm)
      r == read_u8(c.mem, a)
  IN IF r.ok THEN Ok([c EXCEPT !.xregs[rd] = SignExtend(r.val, 64)]) ELSE Panic(c)

Op_LH(c, w, addr) ==
  LET f == FormatI_parse(w)
      rd == resolve_xreg(f.rd)
      rs1 == resolve_xreg(f.rs1)
      rs1_value == c.xregs[rs1]
      a == WrappingAdd(rs1_value, f.imm)
      r == read_u16_le(c.mem, a)
  IN IF r.ok THEN Ok([c EXCEPT !.xregs[rd] = SignExtend(r.val, 64)]) ELSE Panic(c)

Op_LW(c, w, addr) ==
  LET f == FormatI_parse(w)
      rd == resolve_xreg(f.rd)
      rs1 == resolve_xreg(f.rs1)
      rs1_value == c.xregs[rs1]
      a == WrappingAdd(rs1_value, f.imm)
      r == read_u32_le(c.mem, a)
  IN IF r.ok THEN Ok([c EXCEPT !.xregs[rd] = SignExtend(r.val, 64)]) ELSE Panic(c)

\* an LBU that casts through i8
Op_LBU_signed(c, w, addr) ==
  LET f == FormatI_parse(w)
      rd == resolve_xreg(f.rd)
      rs1 == resolve_xreg(f.rs1)
      rs1_value == c.xregs[rs1]
      a == WrappingAdd(rs1_value, f.imm)
      r == read_u8(c.mem, a)
  IN IF r.ok THEN Ok([c EXCEPT !.xregs[rd] = SignExtend(r.val, 64)]) ELSE Panic(c)

Op_LBU(c, w, addr) ==
  LET f == FormatI_parse(w)
      rd == resolve_xreg(f.rd)
      rs1 == resolve_xreg(f.rs1)
      rs1_value == c.xregs[rs1]
      a == WrappingAdd(rs1_value, f.imm)
      r == read_u8(c.mem, a)
  IN IF r.ok THEN Ok([c EXCEPT !.xregs[rd] = ZeroExtend(r.val, 64)]) ELSE Panic(c)

Op_LHU(c, w, addr) ==
  LET f == FormatI_parse(w)
      rd == resolve_xreg(f.rd)
      rs1 == resolve_xreg(f.rs1)
      rs1_value == c.xregs[rs1]
      a == WrappingAdd(rs1_value, f.imm)
      r == read_u16_le(c.mem, a)
  IN IF r.ok THEN Ok([c EXCEPT !.xregs[rd] = ZeroExtend(r.val, 64)]) ELSE Panic(c)

Op_SB(c, w, addr) ==
  LET f == FormatS_parse(w)
      rs1 == resolve_xreg(f.rs1)
      rs2 == resolve_xreg(f.rs2)
      rs1_value == c.xregs[rs1]
      a == WrappingAdd(rs1_value, f.imm)
      r == write_u8(c.mem, a, Trunc(c.xregs[rs2], 8))
  IN IF r.ok THEN Ok([c EXCEPT !.mem = r.mem]) ELSE Panic(c)

\* an SH that stores a word
Op_SH_as_word(c, w, addr) ==
  LET f == FormatS_parse(w)
      rs1 == resolve_xreg(f.rs1)
      rs2 == resolve_xreg(f.rs2)
      rs1_value == c.xregs[rs1]
      a == WrappingAdd(rs1_value, f.imm)
      r == write_u32_le(c.mem, a, Trunc(c.xregs[rs2], 32))
  IN IF r.ok THEN Ok([c EXCEPT !.mem = r.mem]) ELSE Panic(c)

Op_SH(c, w, addr) ==
  LET f == FormatS_parse(w)
      rs1 == resolve_xreg(f.rs1)
      rs2 == resolve_xreg(f.rs2)
      rs1_value == c.xregs[rs1]
      a == WrappingAdd(rs1_value, f.imm)
      r == write_u16_le(c.mem, a, Trunc(c.xregs[rs2], 16))
  IN IF r.ok THEN Ok([c EXCEPT !.mem = r.mem]) ELSE Panic(c)

Op_SW(c, w, addr) ==
  LET f == FormatS_parse(w)
      rs1 == resolve_xreg(f.rs1)
      rs2 == resolve_xreg(f.rs2)
      rs1_value == c.xregs[rs1]
      a == WrappingAdd(rs1_value, f.imm)
      r == write_u32_le(c.mem, a, Trunc(c.xregs[rs2], 32))
  IN IF r.ok THEN Ok([c EXCEPT !.mem = r.mem]) ELSE Panic(c)

Op_ADDI(c, w, addr) ==
  LET f == FormatI_parse(w)
      rd == resolve_xreg(f.rd)
      rs1 == resolve_xreg(f.rs1)
      rs1_value == c.xregs[rs1]
  IN Ok([c EXCEPT !.xregs[rd] = WrappingAdd(rs1_value, f.imm)])

\* a shift amount taken from the low 5 bits only
shift_amount_5_bits(rhs) == ToNat(SubSeq(rhs, 1, 5))

\* u64/i64::wrapping_shl/shr(rhs: u32): the shift is rhs & (64 - 1)
shift_amount(rhs) == ToNat(SubSeq(rhs, 1, 6))

\* (v as u64).wrapping_shl(rhs), (v as u64).wrapping_shr(rhs)
wrapping_shl(v, rhs) == Shl(v, shift_amount(rhs))

wrapping_shr(v, rhs) == Shr(v, shift_amount(rhs))

\* i64::wrapping_shr(rhs): >> on a signed integer copies the sign bit in
wrapping_shr_signed(v, rhs) ==
  [i \in 1..64 |-> IF i + shift_amount(rhs) <= 64 THEN v[i + shift_amount(rhs)]
                   ELSE v[64]]

Op_SLL(c, w, addr) ==
  LET f == FormatR_parse(w)
      rd == resolve_xreg(f.rd)
      rs1 == resolve_xreg(f.rs1)
      rs2 == resolve_xreg(f.rs2)
      rs1_value == c.xregs[rs1]
      rs2_value == c.xregs[rs2]
  IN Ok([c EXCEPT !.xregs[rd] = wrapping_shl(rs1_value, Trunc(rs2_value, 32))])

Op_SRL(c, w, addr) ==
  LET f == FormatR_parse(w)
      rd == resolve_xreg(f.rd)
      rs1 == resolve_xreg(f.rs1)
      rs2 == resolve_xreg(f.rs2)
      rs1_value == c.xregs[rs1]
      rs2_value == c.xregs[rs2]
  IN Ok([c EXCEPT !.xregs[rd] = wrapping_shr(rs1_value, Trunc(rs2_value, 32))])

\* TODO: check arithmetic shift
Op_SRA(c, w, addr) ==
  LET f == FormatR_parse(w)
      rd == resolve_xreg(f.rd)
      rs1 == resolve_xreg(f.rs1)
      rs2 == resolve_xreg(f.rs2)
      rs1_value == c.xregs[rs1]
      rs2_value == c.xregs[rs2]
  IN Ok([c EXCEPT !.xregs[rd] =
           wrapping_shr_signed(rs1_value, Trunc(rs2_value, 32))])

\* the RV64I descriptors whose op is only a comment naming the format
Op_LWU(c, w, addr) == Ok(c)

Op_LD(c, w, addr) == Ok(c)

Op_SD(c, w, addr) == Ok(c)

Op_SLLI(c, w, addr) == Ok(c)

Op_SRLI(c, w, addr) == Ok(c)

Op_SRAI(c, w, addr) == Ok(c)

\* TODO: return trap depending on eei
Op_ECALL(c, w, addr) == Ok(c)

\* TODO: return trap depending on eei
Op_EBREAK(c, w, addr) == Ok(c)

\* the op of the descriptor called name
Exec(name, c, w, addr) ==
  CASE name = "LUI" -> Op_LUI(c, w, addr)
    [] name = "AUIPC" -> Op_AUIPC(c, w, addr)
    [] name = "JAL" -> Op_JAL(c, w, addr)
    [] name = "JALR" -> Op_JALR(c, w, addr)
    [] name = "BEQ" -> Op_BEQ(c, w, addr)
    [] name = "BNQ" -> Op_BNQ(c, w, addr)
    [] name = "BLT" -> Op_BLT(c, w, addr)
    [] name = "BGE" -> Op_BGE(c, w, addr)
    [] name = "BLTU" -> Op_BLTU(c, w, addr)
    [] name = "BGEU" -> Op_BGEU(c, w, addr)
    [] name = "LB" -> Op_LB(c, w, addr)
    [] name = "LH" -> Op_LH(c, w, addr)
    [] name = "LW" -> Op_LW(c, w, addr)
    [] name = "LBU" -> Op_LBU(c, w, addr)
    [] name = "LHU" -> Op_LHU(c, w, addr)
    [] name = "SB" -> Op_SB(c, w, addr)
    [] name = "SH" -> Op_SH(c, w, addr)
    [] name = "SW" -> Op_SW(c, w, addr)
    [] name = "ADDI" -> Op_ADDI(c, w, addr)
    [] name = "SLL" -> Op_SLL(c, w, addr)
    [] name = "SRL" -> Op_SRL(c, w, addr)
    [] name = "SRA" -> Op_SRA(c, w, addr)
    [] name = "LWU" -> Op_LWU(c, w, addr)
    [] name = "LD" -> Op_LD(c, w, addr)
    [] name = "SD" -> Op_SD(c, w, addr)
    [] name = "SLLI" -> Op_SLLI(c, w, addr)
    [] name = "SRLI" -> Op_SRLI(c, w, addr)
    [] name = "SRAI" -> Op_SRAI(c, w, addr)
    [] name = "ECALL" -> Op_ECALL(c, w, addr)
    [] name = "EBREAK" -> Op_EBREAK(c, w, addr)
    [] OTHER -> [cpu |-> c, res |-> "NotModelled"]

----------------------------------------------------------------------------
(* The Cpu and one tick of it                                              *)

XZero == Zeros(64)

\* IntRegisters::get: x0 is always zero
IntRegisters_get(regs, index) == IF index = 0 THEN XZero ELSE regs[index]

\* a set without the x0 test
IntRegisters_set_unguarded(regs, index, value) == [regs EXCEPT ![index] = value]

\* IntRegisters::set: any set of x0 is voided
IntRegisters_set(regs, index, value) ==
  IF index # 0 THEN [regs EXCEPT ![index] = value] ELSE regs

\* Cpu::default() with an empty memory of the given length
Memory_new(len) == [len |-> len, data |-> <<>>]

\* the outcome of a tick: the Cpu it leaves, how it ended, what it ran
TickOutcome(c, res, name, w, instr_pc) ==
  [cpu |-> c, outcome |-> res, name |-> name, word |-> w, addr |-> instr_pc]

\* after the op: Ok enforces X[0] = 0
Tick_done(r, name, w, instr_pc) ==
  IF r.res = "Ok"
  THEN TickOutcome([r.cpu EXCEPT !.xregs[0] = XZero], "Ok", name, w, instr_pc)
  ELSE TickOutcome(r.cpu, r.res, name, w, instr_pc)

\* decode: no match raises IllegalInstruction; a match runs the op
Tick_decoded(c1, w, instr_pc, d) ==
  IF d = 0 THEN TickOutcome(c1, "IllegalInstruction", "", w, instr_pc)
  ELSE Tick_done(Exec(INSTRUCTIONS[d].name, c1, w, instr_pc),
                 INSTRUCTIONS[d].name, w, instr_pc)

\* fetch: the word at pc; then PC <- PC + 4
Tick_fetched(c, fetched) ==
  IF ~fetched.ok THEN TickOutcome(c, "Panic", "", Zeros(32), c.pc)
  ELSE Tick_decoded([c EXCEPT !.pc = AddrAdd(c.pc, 4)], fetched.val, c.pc,
                    Decode(fetched.val))

\* fetch, advance, decode, execute, re-zero x0
TickResult(c) == Tick_fetched(c, read_u32_le(c.mem, c.pc))

Programs ==
  {
    <<B32(\h1234, \h50B7)>>,  \* LUI x1,0x12345
    <<B32(\h8000, \h00B7)>>,  \* LUI x1,0x80000
    <<B32(\h1234, \h5037)>>,  \* LUI x0,0x12345
    <<B32(\h0000, \h1097)>>,  \* AUIPC x1,0x1
    <<B32(\h0000, \h1017)>>,  \* AUIPC x0,0x1
    <<B32(\h0080, \h00EF)>>,  \* JAL x1,+8
    <<B32(\hFF9F, \hF0EF)>>,  \* JAL x1,-8
    <<B32(\h0080, \h006F)>>,  \* JAL x0,+8
    <<B32(\h0010, \h02EF)>>,  \* JAL x5,+2048
    <<B32(\h0042, \h80E7)>>,  \* JALR x1,4(x5)
    <<B32(\hFFD2, \h82E7)>>,  \* JALR x5,-3(x5)
    <<B32(\h0003, \h0067)>>,  \* JALR x0,0(x6)
    <<B32(\h0050, \h0013)>>,  \* ADDI x0,x0,5
    <<B32(\hFFF2, \h8093)>>,  \* ADDI x1,x5,-1
    <<B32(\h6783, \h0093)>>,  \* ADDI x1,x6,1656
    <<B32(\h0062, \h8463)>>,  \* BEQ x5,x6,+8
    <<B32(\hFE62, \h8EE3)>>,  \* BEQ x5,x6,-4
    <<B32(\h0062, \h9463)>>,  \* BNE x5,x6,+8
    <<B32(\hFE62, \h9EE3)>>,  \* BNE x5,x6,-4
    <<B32(\h0062, \hC463)>>,  \* BLT x5,x6,+8
    <<B32(\hFE62, \hCEE3)>>,  \* BLT x5,x6,-4
    <<B32(\h0062, \hD463)>>,  \* BGE x5,x6,+8
    <<B32(\hFE62, \hDEE3)>>,  \* BGE x5,x6,-4
    <<B32(\h0062, \hE463)>>,  \* BLTU x5,x6,+8
    <<B32(\hFE62, \hEEE3)>>,  \* BLTU x5,x6,-4
    <<B32(\h0062, \hF463)>>,  \* BGEU x5,x6,+8
    <<B32(\hFE62, \hFEE3)>>,  \* BGEU x5,x6,-4
    <<B32(\h0001, \h0083)>>,  \* LB x1,0(x2)
    <<B32(\h0022, \h8383)>>,  \* LB x7,2(x5)
    <<B32(\h0001, \h0003)>>,  \* LB x0,0(x2)
    <<B32(\hFFF2, \h8083)>>,  \* LB x1,-1(x5)
    <<B32(\h0001, \h1083)>>,  \* LH x1,0(x2)
    <<B32(\h0022, \h9383)>>,  \* LH x7,2(x5)
    <<B32(\h0001, \h1003)>>,  \* LH x0,0(x2)
    <<B32(\hFFF2, \h9083)>>,  \* LH x1,-1(x5)
    <<B32(\h0001, \h2083)>>,  \* LW x1,0(x2)
    <<B32(\h0022, \hA383)>>,  \* LW x7,2(x5)
    <<B32(\h0001, \h2003)>>,  \* LW x0,0(x2)
    <<B32(\hFFF2, \hA083)>>,  \* LW x1,-1(x5)
    <<B32(\h0001, \h4083)>>,  \* LBU x1,0(x2)
    <<B32(\h0022, \hC383)>>,  \* LBU x7,2(x5)
    <<B32(\h0001, \h4003)>>,  \* LBU x0,0(x2)
    <<B32(\hFFF2, \hC083)>>,  \* LBU x1,-1(x5)
    <<B32(\h0001, \h5083)>>,  \* LHU x1,0(x2)
    <<B32(\h0022, \hD383)>>,  \* LHU x7,2(x5)
    <<B32(\h0001, \h5003)>>,  \* LHU x0,0(x2)
    <<B32(\hFFF2, \hD083)>>,  \* LHU x1,-1(x5)
    <<B32(\h0061, \h0023)>>,  \* SB x6,0(x2)
    <<B32(\h0062, \h81A3)>>,  \* SB x6,3(x5)
    <<B32(\hFE62, \h8E23)>>,  \* SB x6,-4(x5)
    <<B32(\h0061, \h1023)>>,  \* SH x6,0(x2)
    <<B32(\h0062, \h91A3)>>,  \* SH x6,3(x5)
    <<B32(\hFE62, \h9E23)>>,  \* SH x6,-4(x5)
    <<B32(\h0061, \h2023)>>,  \* SW x6,0(x2)
    <<B32(\h0062, \hA1A3)>>,  \* SW x6,3(x5)
    <<B32(\hFE62, \hAE23)>>,  \* SW x6,-4(x5)
    <<B32(\h1234, \h50B7), B32(\h6780, \h8093)>>,  \* LUI x1,0x12345; ADDI x1,x1,1656
    <<B32(\h0070, \h0293), B32(\h0070, \h0313), B32(\hFE62, \h8EE3)>>,  \* ADDI x5,x0,7; ADDI x6,x0,7; BEQ x5,x6,-4
    <<B32(\h0050, \h0013), B32(\h0000, \h0093)>>,  \* ADDI x0,x0,5; ADDI x1,x0,0
    <<B32(\hFFFF, \hF037), B32(\h0060, \h1463)>>,  \* LUI x0,0xFFFFF; BNE x0,x6,+8
    <<B32(\h0040, \h006F), B32(\h0010, \h0093)>>,  \* JAL x0,+4; ADDI x1,x0,1
    <<B32(\h0061, \h0023), B32(\h0001, \h0083)>>,  \* SB x6,0(x2); LB x1,0(x2)
    <<B32(\h0061, \h2223), B32(\h0061, \h5383)>>,  \* SW x6,4(x2); LHU x7,6(x2)
    <<B32(\hFF00, \h0093), B32(\h4040, \hD113)>>,  \* ADDI x1,x0,-16; SRAI x2,x1,4
    <<B32(\h4042, \hD393)>>,  \* SRAI x7,x5,4
    <<B32(\h4242, \hD393)>>,  \* SRAI x7,x5,36
    <<B32(\h0062, \h93B3)>>,  \* SLL x7,x5,x6
    <<B32(\h0200, \h0093), B32(\h0012, \h93B3)>>,  \* ADDI x1,x0,32; SLL x7,x5,x1
    <<B32(\h0400, \h0093), B32(\h0012, \h93B3)>>,  \* ADDI x1,x0,64; SLL x7,x5,x1
    <<B32(\h0062, \hD3B3)>>,  \* SRL x7,x5,x6
    <<B32(\h0200, \h0093), B32(\h0012, \hD3B3)>>,  \* ADDI x1,x0,32; SRL x7,x5,x1
    <<B32(\h0400, \h0093), B32(\h0012, \hD3B3)>>,  \* ADDI x1,x0,64; SRL x7,x5,x1
    <<B32(\h4062, \hD3B3)>>,  \* SRA x7,x5,x6
    <<B32(\h0200, \h0093), B32(\h4012, \hD3B3)>>,  \* ADDI x1,x0,32; SRA x7,x5,x1
    <<B32(\h0400, \h0093), B32(\h4012, \hD3B3)>>,  \* ADDI x1,x0,64; SRA x7,x5,x1
    <<B32(\h0000, \h3003)>>,  \* LD x0,0(x0)
    <<B32(\h0001, \h3083)>>,  \* LD x1,0(x2)
    <<B32(\h0000, \h6003)>>,  \* LWU x0,0(x0)
    <<B32(\h0001, \h6083)>>,  \* LWU x1,0(x2)
    <<B32(\h0061, \h3023)>>,  \* SD x6,0(x2)
    <<B32(\h0062, \hB423)>>,  \* SD x6,8(x5)
    <<B32(\h0000, \h0073)>>,  \* ECALL
    <<B32(\h0010, \h0073)>>  \* EBREAK
  }
MEM_BASE == B64(0, 0, \h8000, 0)

\* 3 * GiB
MemLen == B64(0, 0, \hC000, 0)

DATA_BASE == B64(0, 0, 0, \h1000)

DataBytes == <<\hFF, \h80, \h7F, \h81, \h01, \h00, \h80, \hFF>>

RegVals ==
  {Zeros(64), DATA_BASE, Ones(64), B64(\h8000, 0, 0, 0),
   B64(\h1122, \h3344, \h5566, \h7788)}

RECURSIVE ProgramBytes(_)
\* the little-endian bytes of a sequence of instruction words
ProgramBytes(prog) ==
  IF prog = <<>> THEN <<>>
  ELSE to_le_bytes(Head(prog)) \o ProgramBytes(Tail(prog))

----------------------------------------------------------------------------
(* The ELF parser (crate elf).  A byte slice &[u8] is a window lo..hi of   *)
(* an image; an image is its leading bytes (head) and its length, every    *)
(* byte past the head being FillByte of its offset, so that an image can   *)
(* be longer than 2^32 bytes.  A Result is a record: status "Ok" with a    *)
(* value, "Err" with an ErrorKind, or "Panic" when the call aborts         *)
(* instead of returning.                                                   *)

EI_CLASS == 4

EI_DATA == 5

EI_CLASS_32 == 1

EI_CLASS_64 == 2

EI_DATA_LE == 1

EI_DATA_BE == 2

SIZE_IDENT == 16

ELF_MAGIC == <<\h7F, \h45, \h4C, \h46>>

ElfOk(v) == [status |-> "Ok", kind |-> "", value |-> v]

ElfErr(kind) == [status |-> "Err", kind |-> kind, value |-> <<>>]

ElfPanic == [status |-> "Panic", kind |-> "", value |-> <<>>]

\* the byte of an image past its head, from the low 8 bits of its offset
FillByte(low) == (37 * low + 11) % 256

\* is the offset o inside the first n bytes
Below(o, n) == (\A i \in 31..64 : o[i] = 0) /\ ToNat(Trunc(o, 30)) < n

\* bytes[i] of an image, for a natural number i < len
ImageByteNat(img, i) ==
  IF i < Len(img.head) THEN img.head[i + 1] ELSE FillByte(i % 256)

\* bytes[o] of an image, for a 64-bit o < len
ImageByte(img, o) ==
  IF Below(o, Len(img.head)) THEN img.head[ToNat(Trunc(o, 30)) + 1]
  ELSE FillByte(ToNat(Trunc(o, 8)))

\* four limb sums with the carries dropped
NormLimbs(s) == [k \in 1..4 |-> s[k] % 65536]

\* x + n for an offset x given by its limbs and a small n
LimbsAdd(x, n) == NormLimbs(AddLimbsFrom(x, <<n, 0, 0, 0>>, 1, <<>>))

\* bytes[o .. o + n] of an image, for o + n <= len, o given by its limbs
ImageBytes(img, o, n) ==
  IF o[4] = 0 /\ o[3] = 0 /\ o[2] < 16384 /\ 65536 * o[2] + o[1] < Len(img.head)
  THEN [k \in 1..n |-> ImageByteNat(img, 65536 * o[2] + o[1] + k - 1)]
  ELSE [k \in 1..n |-> FillByte((o[1] + k - 1) % 256)]

\* the slice of a whole image; lo and hi are usize in 16-bit limbs
WholeSlice(img) == [img |-> img, lo |-> <<0, 0, 0, 0>>, hi |-> Limbs(img.len)]

\* bytes.len() >= n
SliceFits(bytes, n) == ~LtLimbs(bytes.hi, LimbsAdd(bytes.lo, n))

\* the first n bytes of a slice that has them
SliceBytes(bytes, n) == ImageBytes(bytes.img, bytes.lo, n)

\* &bytes[n..] of a slice of at least n bytes
SliceFrom(bytes, n) == [bytes EXCEPT !.lo = LimbsAdd(bytes.lo, n)]

Reverse(s) == [i \in 1..Len(s) |-> s[Len(s) + 1 - i]]

from_be_bytes(buf) == from_le_bytes(Reverse(buf))

\* a consume! that reads every integer as little-endian
consume_le_only(bytes, endianness, size) ==
  IF endianness \in {EI_DATA_BE, EI_DATA_LE} THEN
    IF ~SliceFits(bytes, size) THEN ElfPanic
    ELSE ElfOk([val |-> from_le_bytes(SliceBytes(bytes, size)),
                rest |-> SliceFrom(bytes, size)])
  ELSE ElfErr("UnknownEndianess")

\* consume!(bytes, endianness => type): the value read and the advanced slice
consume(bytes, endianness, size) ==
  IF endianness = EI_DATA_BE THEN
    IF ~SliceFits(bytes, size) THEN ElfPanic
    ELSE ElfOk([val |-> from_be_bytes(SliceBytes(bytes, size)),
                rest |-> SliceFrom(bytes, size)])
  ELSE IF endianness = EI_DATA_LE THEN
    IF ~SliceFits(bytes, size) THEN ElfPanic
    ELSE ElfOk([val |-> from_le_bytes(SliceBytes(bytes, size)),
                rest |-> SliceFrom(bytes, size)])
  ELSE ElfErr("UnknownEndianess")

RECURSIVE consume_fields(_, _, _, _)
\* the ? after a consume!: an error ends the parse, a value goes on
consumed(r, endianness, fields, acc) ==
  IF r.status # "Ok" THEN r
  ELSE consume_fields(r.value.rest, endianness, Tail(fields),
                      acc @@ (Head(fields)[1] :> r.value.val))

\* the struct literal of a from_bytes: one consume!(..)? per field, in order
consume_fields(bytes, endianness, fields, acc) ==
  IF fields = <<>> THEN ElfOk(acc)
  ELSE consumed(consume(bytes, endianness, Head(fields)[2]), endianness,
                fields, acc)

\* the fields after e_ident of header!($size), with their sizes in bytes
Header_fields(n) ==
  << <<"e_type", 2>>, <<"e_machine", 2>>, <<"e_version", 4>>,
     <<"e_entry", n>>, <<"e_phoff", n>>, <<"e_shoff", n>>,
     <<"e_flags", 4>>, <<"e_ehsize", 2>>, <<"e_phentsize", 2>>,
     <<"e_phnum", 2>>, <<"e_shentsize", 2>>, <<"e_shnum", 2>>,
     <<"e_shstrndx", 2>> >>

ProgramHeader32_fields ==
  << <<"p_type", 4>>, <<"p_offset", 4>>, <<"p_vaddr", 4>>, <<"p_paddr", 4>>,
     <<"p_filesz", 4>>, <<"p_memsz", 4>>, <<"p_flags", 4>>, <<"p_align", 4>> >>

ProgramHeader64_fields ==
  << <<"p_type", 4>>, <<"p_flags", 4>>, <<"p_offset", 8>>, <<"p_vaddr", 8>>,
     <<"p_paddr", 8>>, <<"p_filesz", 8>>, <<"p_memsz", 8>>, <<"p_align", 8>> >>

SectionHeader_fields(n) ==
  << <<"sh_name", 4>>, <<"sh_type", 4>>, <<"sh_flags", n>>, <<"sh_addr", n>>,
     <<"sh_offset", n>>, <<"sh_size", n>>, <<"sh_link", 4>>, <<"sh_info", 4>>,
     <<"sh_addralign", n>>, <<"sh_entsize", n>> >>

RECURSIVE size_of(_)
\* core::mem::size_of of a #[repr(C)] struct with these fields (no padding)
size_of(fields) ==
  IF fields = <<>> THEN 0 ELSE Head(fields)[2] + size_of(Tail(fields))

\* the magic test and the fields after e_ident
Header_identified(e_ident, bytes, n) ==
  IF SubSeq(e_ident, 1, 4) # ELF_MAGIC THEN ElfErr("InvalidMagic")
  ELSE consume_fields(SliceFrom(bytes, SIZE_IDENT), e_ident[EI_DATA + 1],
                      Header_fields(n), "e_ident" :> e_ident)

\* Header::from_bytes of header!($size), n = size_of::<$size>()
Header_from_bytes(bytes, n) ==
  IF ~SliceFits(bytes, SIZE_IDENT + size_of(Header_fields(n)))
  THEN ElfErr("InsufficantSize")
  ELSE Header_identified(SliceBytes(bytes, SIZE_IDENT), bytes, n)

\* idx as uN * size as uN, for idx and size below 2^16, as 64 bits
IndexTimesSize(idx, size) ==
  WrappingAdd(FromNat(idx * ToNat(SubSeq(size, 1, 8)), 64),
              Shl(FromNat(idx * ToNat(SubSeq(size, 9, 16)), 64), 8))

\* the sum as usize; an overflowing sum panics in a build with overflow
\* checks and wraps in one without
CheckedStart(sum, overflows, width, checks) ==
  IF overflows /\ checks THEN [ok |-> FALSE, start |-> Zeros(64)]
  ELSE [ok |-> TRUE, start |-> ZeroExtend(Trunc(sum, width), 64)]

\* offset + product on uN, both operands given as 64 bits
SumOf(offset, product, width, checks) ==
  CheckedStart(WrappingAdd(offset, product),
               IF width = 32 THEN WrappingAdd(offset, product)[33] = 1
               ELSE AddOverflows(offset, product),
               width, checks)

\* (offset + (idx as uN * size as uN)) as usize
TableStart(offset, idx, size, checks) ==
  SumOf(ZeroExtend(offset, 64), IndexTimesSize(idx, size), Len(offset), checks)

\* the slice from the offset with these limb sums to the end of bytes
SliceAt(bytes, sums) ==
  IF sums[4] >= 65536 \/ LtLimbs(bytes.hi, NormLimbs(sums))
  THEN [ok |-> FALSE, bytes |-> bytes]
  ELSE [ok |-> TRUE, bytes |-> [bytes EXCEPT !.lo = NormLimbs(sums)]]

\* core::ops::Index::index(bytes, start..): panics when start > bytes.len()
IndexFrom(bytes, start) ==
  SliceAt(bytes, AddLimbsFrom(bytes.lo, Limbs(start), 1, <<>>))

RECURSIVE parse_table(_, _, _, _, _, _, _, _)
\* the entry parsed from bytes[start..]: pushed, or the error returned
parsed_entry(r, bytes, endianness, hdr, fields, idx, count, checks, acc) ==
  IF r.status # "Ok" THEN r
  ELSE parse_table(bytes, endianness, hdr, fields, idx + 1, count, checks,
                   Append(acc, r.value))

\* from_bytes(endianness, Index::index(bytes, start..))
sliced_entry(b, bytes, endianness, hdr, fields, idx, count, checks, acc) ==
  IF ~b.ok THEN ElfPanic
  ELSE parsed_entry(consume_fields(b.bytes, endianness, fields, <<>>),
                    bytes, endianness, hdr, fields, idx, count, checks, acc)

\* let start = ..
started_entry(s, bytes, endianness, hdr, fields, idx, count, checks, acc) ==
  IF ~s.ok THEN ElfPanic
  ELSE sliced_entry(IndexFrom(bytes, s.start), bytes, endianness, hdr, fields,
                    idx, count, checks, acc)

\* for idx in 0..count { start = ..; from_bytes(endianness, bytes[start..])? }
parse_table(bytes, endianness, hdr, fields, idx, count, checks, acc) ==
  IF idx >= count THEN ElfOk(acc)
  ELSE started_entry(TableStart(hdr.offset, idx, hdr.size, checks), bytes,
                     endianness, hdr, fields, idx, count, checks, acc)

\* Ok(Self::ElfN { bytes, header, pheaders, sheaders })
with_sheaders(sh, bytes, class, header, pheaders) ==
  IF sh.status # "Ok" THEN sh
  ELSE ElfOk([class |-> class, bytes |-> bytes, header |-> header,
              pheaders |-> pheaders, sheaders |-> sh.value])

\* the section header table, once the program headers are parsed
with_pheaders(ph, bytes, class, n, header, checks) ==
  IF ph.status # "Ok" THEN ph
  ELSE with_sheaders(
         parse_table(bytes, header["e_ident"][EI_DATA + 1],
                     [offset |-> header["e_shoff"],
                      size |-> header["e_shentsize"]],
                     SectionHeader_fields(n), 0, ToNat(header["e_shnum"]),
                     checks, <<>>),
         bytes, class, header, ph.value)

\* the class assertion and the program header table, once the header is parsed
with_header(h, bytes, class, n, phfields, checks) ==
  IF h.status # "Ok" THEN h
  ELSE IF h.value["e_ident"][EI_CLASS + 1] # class THEN ElfPanic
  ELSE with_pheaders(
         parse_table(bytes, h.value["e_ident"][EI_DATA + 1],
                     [offset |-> h.value["e_phoff"],
                      size |-> h.value["e_phentsize"]],
                     phfields, 0, ToNat(h.value["e_phnum"]), checks, <<>>),
         bytes, class, n, h.value, checks)

\* Elf::from_bytes_c32 (n = 4) and Elf::from_bytes_c64 (n = 8)
from_bytes_class(bytes, class, n, phfields, checks) ==
  with_header(Header_from_bytes(bytes, n), bytes, class, n, phfields, checks)

from_bytes_c32(bytes, checks) ==
  from_bytes_class(bytes, EI_CLASS_32, 4, ProgramHeader32_fields, checks)

from_bytes_c64(bytes, checks) ==
  from_bytes_class(bytes, EI_CLASS_64, 8, ProgramHeader64_fields, checks)

\* match class { .. }
from_bytes_of(class, bytes, checks) ==
  IF class = EI_CLASS_32 THEN from_bytes_c32(bytes, checks)
  ELSE IF class = EI_CLASS_64 THEN from_bytes_c64(bytes, checks)
  ELSE ElfErr("InvalidClass")

\* Elf::from_bytes: bytes[EI_CLASS] is an unchecked index
Elf_from_bytes(bytes, checks) ==
  IF ~SliceFits(bytes, EI_CLASS + 1) THEN ElfPanic
  ELSE from_bytes_of(SliceBytes(bytes, EI_CLASS + 1)[EI_CLASS + 1], bytes, checks)

----------------------------------------------------------------------------
(* The loader of the test harness: prepare_memory                          *)

P_TYPE_PT_LOAD == 1

\* ProgramHeader::extract_data: bytes[p_offset .. p_offset + p_filesz],
\* which panics when the end lies past the slice
extract_range(bytes, start, end) ==
  IF LtLimbs(bytes.hi, NormLimbs(AddLimbsFrom(bytes.lo, Limbs(end), 1, <<>>)))
  THEN [ok |-> FALSE, bytes |-> bytes]
  ELSE [ok |-> TRUE,
        bytes |-> [bytes EXCEPT
                     !.lo = NormLimbs(AddLimbsFrom(bytes.lo, Limbs(start), 1, <<>>)),
                     !.hi = NormLimbs(AddLimbsFrom(bytes.lo, Limbs(end), 1, <<>>))]]

extract_data(ph, bytes) ==
  extract_range(bytes, ZeroExtend(ph["p_offset"], 64),
                WrappingAdd(ZeroExtend(ph["p_offset"], 64),
                            ZeroExtend(ph["p_filesz"], 64)))

\* a loader that places the segment at its virtual address
segment_addr_virtual(ph) == ZeroExtend(ph["p_vaddr"], 64)

\* let addr = ph.p_paddr; let start = addr as usize
segment_addr(ph) == ZeroExtend(ph["p_paddr"], 64)

\* (&mut mem[start..end]).copy_from_slice(data), end = start + p_filesz
copy_from_slice(m, start, data, filesz) ==
  IF LtU(m.len, WrappingAdd(start, ZeroExtend(filesz, 64)))
  THEN [ok |-> FALSE, mem |-> m]
  ELSE Memory_write(m, start, SliceBytes(data, ToNat(filesz)))

RECURSIVE load_segments(_, _, _)
\* the segment is in memory: on to the next program header
copied_segment(w, bytes, pheaders) ==
  IF ~w.ok THEN w ELSE load_segments(w.mem, bytes, Tail(pheaders))

\* let data = &bytes[ph]
extracted_segment(data, m, bytes, pheaders) ==
  IF ~data.ok THEN [ok |-> FALSE, mem |-> m]
  ELSE copied_segment(copy_from_slice(m, segment_addr(Head(pheaders)),
                                      data.bytes, Head(pheaders)["p_filesz"]),
                      bytes, pheaders)

\* for ph in pheaders { if ph.p_type == P_TYPE_PT_LOAD { .. } }
load_segments(m, bytes, pheaders) ==
  IF pheaders = <<>> THEN [ok |-> TRUE, mem |-> m]
  ELSE IF Head(pheaders)["p_type"] # FromNat(P_TYPE_PT_LOAD, 32)
  THEN load_segments(m, bytes, Tail(pheaders))
  ELSE extracted_segment(extract_data(Head(pheaders), bytes), m, bytes, pheaders)

\* prepare_memory: a zeroed memory of 3 GiB with the PT_LOAD segments copied
\* to their physical addresses; ok is FALSE when a slice index panics
prepare_memory(bytes, pheaders) ==
  load_segments(Memory_new(MemLen), bytes, pheaders)

----------------------------------------------------------------------------
(* ELF images handed to the parser                                         *)

MaxPhnum == 2

MaxShnum == 1

\* the bytes of an integer field in the byte order of the image
FieldBytes(value, data) ==
  IF data = EI_DATA_BE THEN Reverse(to_le_bytes(value)) ELSE to_le_bytes(value)

RECURSIVE EncodeFields(_, _, _)
EncodeFields(fields, vals, data) ==
  IF fields = <<>> THEN <<>>
  ELSE FieldBytes(vals[Head(fields)[1]], data)
         \o EncodeFields(Tail(fields), vals, data)

\* table entries and segment data: bytes that differ from place to place
BodyBytes(n) == [k \in 1..n |-> (37 * k + 11) % 256]

AddrSize(class) == IF class = EI_CLASS_64 THEN 8 ELSE 4

HeaderSize(class) == SIZE_IDENT + size_of(Header_fields(AddrSize(class)))

PhSize(class) ==
  IF class = EI_CLASS_64 THEN size_of(ProgramHeader64_fields)
  ELSE size_of(ProgramHeader32_fields)

ShSize(class) == size_of(SectionHeader_fields(AddrSize(class)))

\* length of an image with one program header and one section header
FullLen(class) == HeaderSize(class) + PhSize(class) + ShSize(class)

\* an image of len bytes: a header with the given identifier and table
\* fields, followed by BodyBytes; cut after len bytes when len is shorter
MakeImage(class, data, magic, phoff, phnum, shoff, shnum, len) ==
  LET n == AddrSize(class)
      vals == [e_type |-> FromNat(2, 16), e_machine |-> FromNat(\hF3, 16),
               e_version |-> FromNat(1, 32),
               e_entry |-> SubSeq(MEM_BASE, 1, 8 * n),
               e_phoff |-> phoff, e_shoff |-> shoff,
               e_flags |-> FromNat(0, 32),
               e_ehsize |-> FromNat(HeaderSize(class), 16),
               e_phentsize |-> FromNat(PhSize(class), 16),
               e_phnum |-> FromNat(phnum, 16),
               e_shentsize |-> FromNat(ShSize(class), 16),
               e_shnum |-> FromNat(shnum, 16),
               e_shstrndx |-> FromNat(0, 16)]
      ident == magic \o <<class, data, 1>> \o [k \in 1..9 |-> 0]
      header == ident \o EncodeFields(Header_fields(n), vals, data)
      all == header \o BodyBytes(FullLen(class))
  IN SubSeq(all, 1, len)

\* the well-formed image of a class and byte order
ValidImage(class, data) ==
  MakeImage(class, data, ELF_MAGIC,
            FromNat(HeaderSize(class), 8 * AddrSize(class)), 1,
            FromNat(HeaderSize(class) + PhSize(class), 8 * AddrSize(class)), 1,
            FullLen(class))

\* every prefix of the well-formed images, the empty slice included
TruncatedImages ==
  UNION {{SubSeq(ValidImage(class, data), 1, len) :
            data \in {EI_DATA_LE, EI_DATA_BE}, len \in 0..FullLen(class)} :
         class \in {EI_CLASS_32, EI_CLASS_64}}

\* every class and byte order code 0..3, with a good and a bad magic
IdentImages ==
  {MakeImage(class, data, magic, FromNat(HeaderSize(class), 8 * AddrSize(class)),
             1, FromNat(HeaderSize(class) + PhSize(class), 8 * AddrSize(class)),
             1, FullLen(class)) :
     class \in 0..3, data \in 0..3,
     magic \in {ELF_MAGIC, <<\h7F, \h45, \h4C, \h47>>}}

\* table offsets: in place, flush with the end, one byte short, at the end,
\* past the end, and the largest value of the field
TableOffsets(class, base, entsize) ==
  {FromNat(o, 8 * AddrSize(class)) :
     o \in {base, FullLen(class) - entsize, FullLen(class) - entsize + 1,
            FullLen(class), FullLen(class) + 1}}
    \cup {Ones(8 * AddrSize(class))}

TableImages ==
  UNION {{MakeImage(class, data, ELF_MAGIC, phoff, phnum, shoff, shnum,
                    FullLen(class)) :
            data \in {EI_DATA_LE, EI_DATA_BE}, phnum \in 0..MaxPhnum,
            shnum \in 0..MaxShnum,
            phoff \in TableOffsets(class, HeaderSize(class), PhSize(class)),
            shoff \in TableOffsets(class, HeaderSize(class) + PhSize(class),
                                   ShSize(class))} :
         class \in {EI_CLASS_32, EI_CLASS_64}}

\* the image made of exactly these bytes
Image(bytes) == [head |-> bytes, len |-> FromNat(Len(bytes), 64)]

\* the ELF64 little-endian header of the test punktf_header
punktf_header ==
  <<\h7F, \h45, \h4C, \h46, \h02, \h01, \h01, \h00, \h00,
    \h00, \h00, \h00, \h00, \h00, \h00, \h00, \h03, \h00,
    \h3E, \h00, \h01, \h00, \h00, \h00, \h80, \h98, \h07,
    \h00, \h00, \h00, \h00, \h00, \h40, \h00, \h00, \h00,
    \h00, \h00, \h00, \h00, \h38, \hB8, \h3D, \h00, \h00,
    \h00, \h00, \h00, \h00, \h00, \h00, \h00, \h40, \h00,
    \h38, \h00, \h0C, \h00, \h40, \h00, \h2B, \h00, \h29,
    \h00>>

\* an ELF32 image of 2^32 + 64 bytes: the header, then FillByte
HugeImage(data, phoff, phnum, shoff, shnum) ==
  [head |-> MakeImage(EI_CLASS_32, data, ELF_MAGIC, phoff, phnum, shoff, shnum,
                      HeaderSize(EI_CLASS_32)),
   len |-> B64(0, 1, 0, 64)]

\* two table entries of which the second starts at 2^32 - entsize (the
\* last offset that fits 32 bits) or at 2^32 (the first that does not)
HugeImages ==
  {HugeImage(data, phoff, 2, Zeros(32), 0) :
     data \in {EI_DATA_LE, EI_DATA_BE},
     phoff \in {B32(\hFFFF, \hFFC0), B32(\hFFFF, \hFFE0)}}
  \cup
  {HugeImage(data, Zeros(32), 0, shoff, 2) :
     data \in {EI_DATA_LE, EI_DATA_BE},
     shoff \in {B32(\hFFFF, \hFFB0), B32(\hFFFF, \hFFD8)}}

\* an ELF32 program header
Segment(type, offset, paddr, filesz, memsz) ==
  [p_type |-> FromNat(type, 32), p_offset |-> FromNat(offset, 32),
   p_vaddr |-> FromNat(\h1000, 32), p_paddr |-> paddr,
   p_filesz |-> FromNat(filesz, 32), p_memsz |-> FromNat(memsz, 32),
   p_flags |-> FromNat(7, 32), p_align |-> FromNat(4, 32)]

\* where the segment data of a LoadImage starts
LoadBase == HeaderSize(EI_CLASS_32) + MaxPhnum * PhSize(EI_CLASS_32)

\* length of the segment data of a LoadImage
LoadBytes == 12

\* program headers: PT_LOAD segments that overlap or not, a segment with
\* zero-filled tail, one without file bytes, one that is not PT_LOAD, one
\* at the end of the memory, one past it and one past the end of the file
LoadHeaders ==
  {Segment(1, LoadBase, B32(\h8000, 0), 4, 8),
   Segment(1, LoadBase + 4, B32(\h8000, 4), 4, 4),
   Segment(1, LoadBase + 8, B32(\h8000, 2), 4, 4),
   Segment(4, LoadBase, B32(\h8000, \h10), 4, 4),
   Segment(1, LoadBase, B32(\h8000, \h30), 0, 4),
   Segment(1, LoadBase + 4, B32(\hBFFF, \hFFFC), 4, 8),
   Segment(1, LoadBase, B32(\hBFFF, \hFFFE), 4, 4),
   Segment(1, LoadBase + LoadBytes - 2, B32(\h8000, \h20), 4, 4)}

RECURSIVE EncodeHeaders(_, _)
EncodeHeaders(pheaders, data) ==
  IF pheaders = <<>> THEN <<>>
  ELSE EncodeFields(ProgramHeader32_fields, Head(pheaders), data)
         \o EncodeHeaders(Tail(pheaders), data)

\* an ELF32 image with these program headers and LoadBytes of segment data
LoadImage(data, pheaders) ==
  LET header == MakeImage(EI_CLASS_32, data, ELF_MAGIC,
                          FromNat(HeaderSize(EI_CLASS_32), 32), Len(pheaders),
                          Zeros(32), 0, HeaderSize(EI_CLASS_32))
      table == EncodeHeaders(pheaders, data)
  IN Image(header \o table \o [k \in 1..(LoadBase - Len(header) - Len(table)) |-> 0]
             \o BodyBytes(LoadBytes))

\* every list of headers in a little-endian file, every single header in a
\* big-endian one
LoadImages ==
  {LoadImage(EI_DATA_LE, pheaders) :
     pheaders \in UNION {[1..n -> LoadHeaders] : n \in 0..MaxPhnum}}
  \cup {LoadImage(EI_DATA_BE, <<ph>>) : ph \in LoadHeaders}

\* four bytes that are not the magic, and nothing else
BadMagicOnly == <<\h7F, \h45, \h4C, \h47>>

ElfImages ==
  {Image(bytes) : bytes \in TruncatedImages \cup IdentImages \cup TableImages
                            \cup {punktf_header, BadMagicOnly}}
    \cup HugeImages \cup LoadImages

NotParsed == [status |-> "None", kind |-> "", value |-> <<>>]

\* the parser and the loader before they are used
ElfIdle ==
  /\ image = Image(<<>>)
  /\ elf = NotParsed
  /\ ehdr = NotParsed

----------------------------------------------------------------------------
(* String tables and symbol tables (crate elf, modules strtab and symtab). *)
(* An Option or an aborted call is a record: status "Some" with a value,   *)
(* "None", or "Panic".                                                     *)

Some(v) == [status |-> "Some", value |-> v]

None == [status |-> "None", value |-> <<>>]

CallPanic == [status |-> "Panic", value |-> <<>>]

\* Strtab::new(delim, data)
Strtab_new(delim, data) == [kind |-> "Strtab", delim |-> delim, data |-> data]

\* the index of the first byte of data that is the delimiter, 0 without one
position(data, delim) ==
  IF \A i \in 1..Len(data) : data[i] # delim THEN 0
  ELSE CHOOSE i \in 1..Len(data) :
         data[i] = delim /\ \A j \in 1..(i - 1) : data[j] # delim

RECURSIVE split(_, _)
\* the items of slice::split(|b| b == &delim): the subslices between the
\* delimiters, the last one running to the end of data
split_at_position(data, delim, k) ==
  IF k = 0 THEN <<data>>
  ELSE <<SubSeq(data, 1, k - 1)>> \o split(SubSeq(data, k + 1, Len(data)), delim)

split(data, delim) == split_at_position(data, delim, position(data, delim))

\* .skip(index).next()
skip_next(items, index) ==
  IF index < Len(items) THEN Some(items[index + 1]) ELSE None

\* a get_bytes that counts records from 1
Strtab_get_bytes_from_one(t, index) ==
  skip_next(split(t.data, t.delim), index + 1)

\* Strtab::get_bytes
Strtab_get_bytes(t, index) == skip_next(split(t.data, t.delim), index)

\* Strtab::get_bytes_off: data[offset..] panics when offset > data.len()
Strtab_get_bytes_off(t, offset) ==
  IF offset > Len(t.data) THEN CallPanic
  ELSE skip_next(split(SubSeq(t.data, offset + 1, Len(t.data)), t.delim), 0)

\* the fields of symbol_table!($size)'s Symbol, with their sizes in bytes
Symbol_fields(n) ==
  << <<"st_name", 4>>, <<"st_value", n>>, <<"st_size", n>>,
     <<"st_info", 1>>, <<"st_other", 1>>, <<"st_shndx", 2>> >>

\* off rounded up to a multiple of align
round_up(off, align) == ((off + align - 1) \div align) * align

RECURSIVE layout_end(_, _)
\* where a #[repr(C)] struct ends when its fields are laid out from off on,
\* each integer aligned to its size
layout_end(fields, off) ==
  IF fields = <<>> THEN off
  ELSE layout_end(Tail(fields),
                  round_up(off, Head(fields)[2]) + Head(fields)[2])

RECURSIVE max_align(_)
max_align(fields) ==
  IF fields = <<>> THEN 1
  ELSE IF Head(fields)[2] > max_align(Tail(fields)) THEN Head(fields)[2]
  ELSE max_align(Tail(fields))

\* const SYMBOL_SIZE: usize = core::mem::size_of::<Symbol>(), padding
\* included: 16 for u32, 32 for u64
SYMBOL_SIZE(n) ==
  round_up(layout_end(Symbol_fields(n), 0), max_align(Symbol_fields(n)))

\* Symbol::from_bytes
Symbol_from_bytes(endianness, bytes, n) ==
  consume_fields(bytes, endianness, Symbol_fields(n), <<>>)

\* Symtab::new(endianness, data) of symbol_table!($size), n = size_of $size
Symtab_new(endianness, data, n) ==
  [kind |-> "Symtab", endianness |-> endianness, data |-> data, n |-> n]

\* data.len() of a slice that lies in the first 2^30 bytes of its image
SliceLen(bytes) ==
  (65536 * bytes.hi[2] + bytes.hi[1]) - (65536 * bytes.lo[2] + bytes.lo[1])

\* Symtab::len
Symtab_len(t) == SliceLen(t.data) \div SYMBOL_SIZE(t.n)

\* Result::ok()
Result_ok(r) ==
  IF r.status = "Ok" THEN Some(r.value)
  ELSE IF r.status = "Err" THEN None
  ELSE CallPanic

\* Symbol::from_bytes(endianness, Index::index(data, start..)).ok()
symbol_at(t, b) ==
  IF ~b.ok THEN CallPanic
  ELSE Result_ok(Symbol_from_bytes(t.endianness, b.bytes, t.n))

\* Symtab::get_symbol
Symtab_get_symbol(t, index) ==
  IF index * SYMBOL_SIZE(t.n) < SliceLen(t.data)
  THEN symbol_at(t, IndexFrom(t.data, FromNat(index * SYMBOL_SIZE(t.n), 64)))
  ELSE None

\* longest string table data, and the bytes it is made of (0 is
\* Strtab::DEFAULT_DELIM)
MaxStrLen == 4

StrBytes == {0, 65, 66}

Strtabs ==
  {Strtab_new(delim, data) :
     delim \in {0, 65},
     data \in UNION {[1..n -> StrBytes] : n \in 0..MaxStrLen}}

\* lengths of symbol table data: whole records of either class, and
\* records followed by a part of one
SymtabLens == {0, 3, 16, 20, 24, 32, 40, 48, 56, 64, 70}

Symtabs ==
  {Symtab_new(endianness, WholeSlice(Image(BodyBytes(len))), n) :
     endianness \in {EI_DATA_LE, EI_DATA_BE}, len \in SymtabLens, n \in {4, 8}}

\* largest index and offset handed to the tables
MaxIndex == 5

NoTab == [kind |-> "None"]

NoCall == [op |-> "", arg |-> 0, result |-> None]

\* the tables before they are used
TabIdle ==
  /\ tab = NoTab
  /\ call = NoCall

----------------------------------------------------------------------------
(* What the harness hands to the loader for a program: a file that holds   *)
(* the instruction words and the data, and one PT_LOAD header for each     *)

ProgramImage(prog) == Image(ProgramBytes(prog) \o DataBytes)

ProgramHeaders(prog) ==
  <<Segment(1, 0, Trunc(MEM_BASE, 32), 4 * Len(prog), 4 * Len(prog)),
    Segment(1, 4 * Len(prog), Trunc(DATA_BASE, 32), Len(DataBytes),
            Len(DataBytes))>>

MaxTicks == 3

NoFmt == [I |-> <<>>, S |-> <<>>, B |-> <<>>, U |-> <<>>, J |-> <<>>]

\* the word functions before they are used
WordIdle ==
  /\ word = Zeros(32)
  /\ found = <<>>
  /\ fmt = NoFmt
  /\ wphase = {}

\* index is <<i>> after IntRegisters::set on register i, <<>> otherwise
NoLast == [name |-> "", word |-> Zeros(32), addr |-> XZero, index |-> <<>>]

\* the fields of the Cpu
TheCpu ==
  [pc |-> pc, xregs |-> xregs, fregs |-> fregs, status |-> status, mem |-> mem]

\* the Cpu before it is used: Cpu::default()
CpuIdle ==
  /\ pc = XZero
  /\ xregs = [r \in 0..31 |-> XZero]
  /\ fregs = [r \in 0..31 |-> XZero]
  /\ status = "Initializing"
  /\ mem = Memory_new(XZero)
  /\ outcome = "None"
  /\ last = NoLast
  /\ prev = [pc |-> XZero, xregs |-> [r \in 0..31 |-> XZero],
             fregs |-> [r \in 0..31 |-> XZero], status |-> "Initializing",
             mem |-> Memory_new(XZero)]
  /\ nticks = 0

\* the values tried for register r: RegVals when a word of prog has r in
\* its rs1 or rs2 field, zero when no word can read r
RegValsFor(prog, r) ==
  IF \E k \in 1..Len(prog) :
       resolve_xreg(Field_rs1(prog[k])) = r \/ resolve_xreg(Field_rs2(prog[k])) = r
  THEN RegVals ELSE {XZero}

Init ==
  /\ \E prog \in Programs :
       \E m \in {prepare_memory(WholeSlice(ProgramImage(prog)),
                                 ProgramHeaders(prog)).mem},
          v5 \in RegValsFor(prog, 5),
          v6 \in RegValsFor(prog, 6) :
         /\ pc = MEM_BASE
         /\ xregs = [r \in 0..31 |->
                       CASE r = 2 -> DATA_BASE
                         [] r = 5 -> v5
                         [] r = 6 -> v6
                         [] OTHER -> XZero]
         /\ mem = m
  /\ fregs = [r \in 0..31 |-> XZero]
  /\ status = "Initializing"
  /\ outcome = "None"
  /\ last = NoLast
  /\ prev = TheCpu
  /\ nticks = 0
  /\ WordIdle
  /\ ElfIdle
  /\ TabIdle

Tick ==
  /\ outcome # "Panic"
  /\ nticks < MaxTicks
  /\ \E t \in {TickResult(TheCpu)} :
        /\ pc' = t.cpu.pc
        /\ xregs' = t.cpu.xregs
        /\ fregs' = t.cpu.fregs
        /\ status' = t.cpu.status
        /\ mem' = t.cpu.mem
        /\ outcome' = t.outcome
        /\ last' = [name |-> t.name, word |-> t.word, addr |-> t.addr,
                     index |-> <<>>]
  /\ prev' = TheCpu
  /\ nticks' = nticks + 1
  /\ UNCHANGED <<wvars, evars, tvars>>

\* registers and values the embedder sets
SetRegs == {0, 5}

SetVals == {Ones(64)}

\* the embedder calls cpu.xregs.set(index, value) between two ticks
SetReg ==
  /\ outcome # "Panic"
  /\ \E index \in SetRegs, value \in SetVals :
       /\ xregs' = IntRegisters_set(xregs, index, value)
       /\ last' = [name |-> "IntRegisters::set", word |-> Zeros(32),
                   addr |-> XZero, index |-> <<index>>]
  /\ outcome' = "None"
  /\ prev' = TheCpu
  /\ UNCHANGED <<pc, fregs, status, mem, nticks, wvars, evars, tvars>>

Next == Tick \/ SetReg

Spec == Init /\ [][Next]_vars

----------------------------------------------------------------------------
(* The pure functions of a word: decoding and format parsing               *)

\* words matched by two descriptors at once if any two descriptors overlap
ReqdWords ==
  {Or(INSTRUCTIONS[i].reqd, INSTRUCTIONS[j].reqd) :
     i \in 1..Len(INSTRUCTIONS), j \in 1..Len(INSTRUCTIONS)}

\* each descriptor with all of its operand bits set
OperandWords ==
  {Or(INSTRUCTIONS[i].reqd, Not(INSTRUCTIONS[i].mask)) :
     i \in 1..Len(INSTRUCTIONS)}

\* LUI x1,0x12345; ADDI x1,x1,0x678; no descriptor; all ones
ScenarioWords ==
  {B32(\h1234, \h50B7), B32(\h6780, \h8093), B32(0, 0), B32(\hFFFF, \hFFFF)}

\* each single bit of a word set, and each single bit clear
BitWords ==
  {[i \in 1..32 |-> IF i = k THEN 1 ELSE 0] : k \in 1..32}
  \cup {[i \in 1..32 |-> IF i = k THEN 0 ELSE 1] : k \in 1..32}

Words == ReqdWords \cup OperandWords \cup ScenarioWords \cup BitWords

InitWord ==
  /\ word \in Words
  /\ found = <<>>
  /\ fmt = NoFmt
  /\ wphase = {}
  /\ CpuIdle
  /\ ElfIdle
  /\ TabIdle

\* the decoding loop over the whole table
DecodeWord ==
  /\ "decode" \notin wphase
  /\ found' = MatchingIndices(word)
  /\ wphase' = wphase \cup {"decode"}
  /\ UNCHANGED <<word, fmt>>
  /\ UNCHANGED <<cvars, evars, tvars>>

\* the five immediate-carrying format parsers
ParseWord ==
  /\ "parse" \notin wphase
  /\ fmt' = [I |-> FormatI_parse(word).imm, S |-> FormatS_parse(word).imm,
             B |-> FormatB_parse(word).imm, U |-> FormatU_parse(word).imm,
             J |-> FormatJ_parse(word).imm]
  /\ wphase' = wphase \cup {"parse"}
  /\ UNCHANGED <<word, found>>
  /\ UNCHANGED <<cvars, evars, tvars>>

NextWord == DecodeWord \/ ParseWord

SpecWord == InitWord /\ [][NextWord]_vars

----------------------------------------------------------------------------
(* Parsing an ELF image                                                    *)

InitElf ==
  /\ image \in ElfImages
  /\ elf = NotParsed
  /\ ehdr = NotParsed
  /\ CpuIdle
  /\ WordIdle
  /\ TabIdle

\* Elf::from_bytes(image), in a build with or without overflow checks
ParseElf ==
  /\ elf = NotParsed /\ ehdr = NotParsed
  /\ \E checks \in BOOLEAN : elf' = Elf_from_bytes(WholeSlice(image), checks)
  /\ UNCHANGED <<image, ehdr, cvars, wvars, tvars>>

\* elf32::Header::from_bytes(image) or elf64::Header::from_bytes(image)
ParseHeader ==
  /\ elf = NotParsed /\ ehdr = NotParsed
  /\ \E n \in {4, 8} :
       ehdr' = [size |-> n, result |-> Header_from_bytes(WholeSlice(image), n)]
  /\ UNCHANGED <<image, elf, cvars, wvars, tvars>>

\* the harness on an Elf32: cpu.mmu.memory = prepare_memory(bytes,
\* &pheaders); cpu.pc = MEM_BASE
LoadElf ==
  /\ elf.status = "Ok" /\ elf.value.class = EI_CLASS_32
  /\ outcome = "None" /\ mem.len = XZero
  /\ \E m \in {prepare_memory(elf.value.bytes, elf.value.pheaders)} :
       IF m.ok
       THEN mem' = m.mem /\ pc' = MEM_BASE /\ outcome' = "None"
       ELSE mem' = mem /\ pc' = pc /\ outcome' = "Panic"
  /\ UNCHANGED <<xregs, fregs, status, last, prev, nticks, wvars, evars,
               tvars>>

NextElf == ParseElf \/ ParseHeader \/ LoadElf

SpecElf == InitElf /\ [][NextElf]_vars

----------------------------------------------------------------------------
(* Calls on a string table or a symbol table                               *)

InitTab ==
  /\ tab \in Strtabs \cup Symtabs
  /\ call = NoCall
  /\ CpuIdle
  /\ WordIdle
  /\ ElfIdle

\* strtab.get_bytes(index)
GetBytes ==
  /\ tab.kind = "Strtab"
  /\ \E index \in 0..MaxIndex :
       call' = [op |-> "get_bytes", arg |-> index,
                result |-> Strtab_get_bytes(tab, index)]
  /\ UNCHANGED <<tab, cvars, wvars, evars>>

\* strtab.get_bytes_off(offset)
GetBytesOff ==
  /\ tab.kind = "Strtab"
  /\ \E offset \in 0..MaxIndex :
       call' = [op |-> "get_bytes_off", arg |-> offset,
                result |-> Strtab_get_bytes_off(tab, offset)]
  /\ UNCHANGED <<tab, cvars, wvars, evars>>

\* symtab.get_symbol(index)
GetSymbol ==
  /\ tab.kind = "Symtab"
  /\ \E index \in 0..MaxIndex :
       call' = [op |-> "get_symbol", arg |-> index,
                result |-> Symtab_get_symbol(tab, index)]
  /\ UNCHANGED <<tab, cvars, wvars, evars>>

NextTab == GetBytes \/ GetBytesOff \/ GetSymbol

SpecTab == InitTab /\ [][NextTab]_vars

----------------------------------------------------------------------------
(* The typed readers and writers of Addressable, called on a Memory.  The  *)
(* type of a value is its length in bits.                                  *)

\* a to_be_bytes that keeps the least significant byte first
to_be_bytes_unreversed(value) == to_le_bytes(value)

to_be_bytes(value) == Reverse(to_le_bytes(value))

\* read!(.. : be) and write!(.. : be) of width size_of::<$size>()
ReadBe(m, addr, n) ==
  [ok |-> Memory_read(m, addr, n).ok,
   val |-> from_be_bytes(Memory_read(m, addr, n).data)]

WriteBe(m, addr, value) == Memory_write(m, addr, to_be_bytes(value))

read_u16_be(m, addr) == ReadBe(m, addr, 2)

read_u32_be(m, addr) == ReadBe(m, addr, 4)

read_u64_be(m, addr) == ReadBe(m, addr, 8)

read_u64_le(m, addr) == ReadLe(m, addr, 8)

read_u128_be(m, addr) == ReadBe(m, addr, 16)

read_u128_le(m, addr) == ReadLe(m, addr, 16)

write_u16_be(m, addr, value) == WriteBe(m, addr, value)

write_u32_be(m, addr, value) == WriteBe(m, addr, value)

write_u64_be(m, addr, value) == WriteBe(m, addr, value)

write_u64_le(m, addr, value) == WriteLe(m, addr, value)

write_u128_be(m, addr, value) == WriteBe(m, addr, value)

write_u128_le(m, addr, value) == WriteLe(m, addr, value)

\* the reader generated for a type of size bytes
typed_read_be(m, addr, size) ==
  CASE size = 2 -> read_u16_be(m, addr)
    [] size = 4 -> read_u32_be(m, addr)
    [] size = 8 -> read_u64_be(m, addr)
    [] size = 16 -> read_u128_be(m, addr)

typed_read_le(m, addr, size) ==
  CASE size = 2 -> read_u16_le(m, addr)
    [] size = 4 -> read_u32_le(m, addr)
    [] size = 8 -> read_u64_le(m, addr)
    [] size = 16 -> read_u128_le(m, addr)

\* the writer generated for the type of value
typed_write_be(m, addr, value) ==
  CASE Len(value) = 16 -> write_u16_be(m, addr, value)
    [] Len(value) = 32 -> write_u32_be(m, addr, value)
    [] Len(value) = 64 -> write_u64_be(m, addr, value)
    [] Len(value) = 128 -> write_u128_be(m, addr, value)

typed_write_le(m, addr, value) ==
  CASE Len(value) = 16 -> write_u16_le(m, addr, value)
    [] Len(value) = 32 -> write_u32_le(m, addr, value)
    [] Len(value) = 64 -> write_u64_le(m, addr, value)
    [] Len(value) = 128 -> write_u128_le(m, addr, value)

\* size_of::<u16>(), <u32>(), <u64>(), <u128>()
TypeSizes == {2, 4, 8, 16}

\* the memory the calls work on: TestMemLen bytes, byte k holding 160 + k
TestMemLen == 17

TestMemory ==
  [len |-> FromNat(TestMemLen, 64),
   data |-> [a \in {FromNat(k, 64) : k \in 0..(TestMemLen - 1)} |->
               160 + ToNat(SubSeq(a, 1, 8))]]

\* address 1 is in range for every type, the other one for all but u128
TestAddrs == {FromNat(1, 64), FromNat(TestMemLen - 15, 64)}

\* the value of size bytes whose byte k (from the least significant) is
\* first - k
CountingValue(size, first) ==
  [i \in 1..(8 * size) |-> ((first - (i - 1) \div 8) \div Pow2((i - 1) % 8)) % 2]

\* per type, the value with the bytes 0xFE, 0xFD, .. from the least
\* significant one on
TestValues(size) == {CountingValue(size, 254)}

MaxCalls == 2

\* wrote is <<w>> after a write w that succeeded, <<>> before
NoMemCall ==
  [op |-> "", be |-> FALSE, size |-> 0, addr |-> XZero, value |-> <<>>,
   result |-> <<>>, wrote |-> <<>>]

InitMem ==
  /\ pc = XZero
  /\ xregs = [r \in 0..31 |-> XZero]
  /\ fregs = [r \in 0..31 |-> XZero]
  /\ status = "Initializing"
  /\ mem = TestMemory
  /\ outcome = "None"
  /\ last = NoLast
  /\ prev = [pc |-> XZero, xregs |-> [r \in 0..31 |-> XZero],
             fregs |-> [r \in 0..31 |-> XZero], status |-> "Initializing",
             mem |-> TestMemory]
  /\ nticks = 0
  /\ WordIdle
  /\ ElfIdle
  /\ tab = NoTab
  /\ call = NoMemCall

\* what a call of a reader leaves: the value on Ok, a panic otherwise
AfterRead(be, size, addr, r) ==
  /\ outcome' = IF r.ok THEN "Ok" ELSE "Panic"
  /\ call' = [op |-> "read", be |-> be, size |-> size, addr |-> addr,
              value |-> <<>>, result |-> IF r.ok THEN r.val ELSE <<>>,
              wrote |-> call.wrote]
  /\ prev' = TheCpu
  /\ nticks' = nticks + 1
  /\ UNCHANGED <<pc, xregs, fregs, status, mem, last, tab, wvars, evars>>

\* what a call of a writer leaves: the new memory on Ok, a panic otherwise
AfterWrite(be, addr, value, r) ==
  /\ mem' = r.mem
  /\ outcome' = IF r.ok THEN "Ok" ELSE "Panic"
  /\ call' = [op |-> "write", be |-> be, size |-> Len(value) \div 8,
              addr |-> addr, value |-> value, result |-> <<>>,
              wrote |-> IF r.ok
                        THEN <<[be |-> be, size |-> Len(value) \div 8,
                                addr |-> addr, value |-> value]>>
                        ELSE call.wrote]
  /\ prev' = TheCpu
  /\ nticks' = nticks + 1
  /\ UNCHANGED <<pc, xregs, fregs, status, last, tab, wvars, evars>>

CallReadBe ==
  /\ outcome # "Panic"
  /\ nticks < MaxCalls
  /\ \E size \in TypeSizes, addr \in TestAddrs :
       AfterRead(TRUE, size, addr, typed_read_be(mem, addr, size))

CallReadLe ==
  /\ outcome # "Panic"
  /\ nticks < MaxCalls
  /\ \E size \in TypeSizes, addr \in TestAddrs :
       AfterRead(FALSE, size, addr, typed_read_le(mem, addr, size))

CallWriteBe ==
  /\ outcome # "Panic"
  /\ nticks < MaxCalls
  /\ \E size \in TypeSizes, addr \in TestAddrs :
       \E value \in TestValues(size) :
         AfterWrite(TRUE, addr, value, typed_write_be(mem, addr, value))

CallWriteLe ==
  /\ outcome # "Panic"
  /\ nticks < MaxCalls
  /\ \E size \in TypeSizes, addr \in TestAddrs :
       \E value \in TestValues(size) :
         AfterWrite(FALSE, addr, value, typed_write_le(mem, addr, value))

NextMem == CallReadBe \/ CallReadLe \/ CallWriteBe \/ CallWriteLe

SpecMem == InitMem /\ [][NextMem]_vars

----------------------------------------------------------------------------
\* C2: every word matches at most one descriptor of the instruction table,
\* so the first match and the last match of the table are the same one.
C2_AtMostOneMatch ==
  "decode" \in wphase =>
    /\ Len(found) <= 1
    /\ found # <<>> => Decode(word) = found[Len(found)]

C2_Witness == "decode" \in wphase /\ Len(found) = 1 /\ word \in ReqdWords

\* C4 as claimed: the U immediate has its low 12 bits clear and bits 12..31
\* equal to bits 12..31 of the word.
C4_UImmAsClaimed ==
  "parse" \in wphase =>
    /\ \A i \in 0..11 : Bit(fmt.U, i) = 0
    /\ \A i \in 12..31 : Bit(fmt.U, i) = Bit(word, i)

----------------------------------------------------------------------------
(* The instruction encoding of the RISC-V manual, used to state what an    *)
(* instruction is expected to do: register fields and sign-extended        *)
(* immediates read straight off the bit positions of the word.             *)

RdOf(w) == ToNat(SubSeq(w, 8, 12))

Rs1Of(w) == ToNat(SubSeq(w, 16, 20))

Rs2Of(w) == ToNat(SubSeq(w, 21, 25))

\* imm[11:0] = w[31:20]
Ref_ImmI(w) == [i \in 1..64 |-> IF i <= 12 THEN w[20 + i] ELSE w[32]]

\* imm[4:0] = w[11:7], imm[11:5] = w[31:25]
Ref_ImmS(w) ==
  [i \in 1..64 |-> IF i <= 5 THEN w[7 + i] ELSE IF i <= 12 THEN w[20 + i] ELSE w[32]]

\* imm[0] = 0, imm[4:1] = w[11:8], imm[10:5] = w[30:25], imm[11] = w[7], imm[12] = w[31]
Ref_ImmB(w) ==
  [i \in 1..64 |->
     IF i = 1 THEN 0
     ELSE IF i <= 5 THEN w[7 + i]
     ELSE IF i <= 11 THEN w[20 + i]
     ELSE IF i = 12 THEN w[8]
     ELSE w[32]]

\* imm[0] = 0, imm[10:1] = w[30:21], imm[11] = w[20], imm[19:12] = w[19:12], imm[20] = w[31]
Ref_ImmJ(w) ==
  [i \in 1..64 |->
     IF i = 1 THEN 0
     ELSE IF i <= 11 THEN w[20 + i]
     ELSE IF i = 12 THEN w[21]
     ELSE IF i <= 20 THEN w[i]
     ELSE w[32]]

\* unsigned and signed order of two 64-bit values, bit by bit
Ref_LtU(a, b) == \E i \in 1..64 : a[i] < b[i] /\ \A j \in (i + 1)..64 : a[j] = b[j]

Ref_LtS(a, b) == Ref_LtU([a EXCEPT ![64] = 1 - a[64]], [b EXCEPT ![64] = 1 - b[64]])

\* bit i (from 0) of the little-endian value of the bytes of m at address a
Ref_MemBit(m, a, i) == (ByteAt(m, AddrAdd(a, i \div 8)) \div Pow2(i % 8)) % 2

\* the n bytes at a, little-endian, extended to 64 bits by sign or by zero
Ref_Loaded(m, a, n, signed) ==
  [i \in 1..64 |->
     IF i <= 8 * n THEN Ref_MemBit(m, a, i - 1)
     ELSE IF signed THEN Ref_MemBit(m, a, 8 * n - 1) ELSE 0]

\* byte k (from 0) of a 64-bit value
Ref_ByteOf(v, k) == ToNat(SubSeq(v, 8 * k + 1, 8 * k + 8))

Executed(name) == last.name = name /\ outcome = "Ok"

----------------------------------------------------------------------------
C5_LuiAsClaimed ==
  /\ (Executed("LUI") /\ RdOf(last.word) # 0) =>
       xregs[RdOf(last.word)] =
         SignExtend(And(last.word, B32(\hFFFF, \hF000)), 64)
  /\ (Executed("ADDI") /\ last.word = B32(\h6780, \h8093)
        /\ last.addr = AddrAdd(MEM_BASE, 4)
        /\ ReadLe(mem, MEM_BASE, 4).val = B32(\h1234, \h50B7)) =>
       xregs[1] = B64(0, 0, \h1234, \h5678)

BranchAsExpected(cond) ==
  /\ pc = IF cond THEN WrappingAdd(last.addr, Ref_ImmB(last.word))
          ELSE AddrAdd(last.addr, 4)
  /\ xregs = prev.xregs
  /\ mem = prev.mem

BranchRs1 == prev.xregs[Rs1Of(last.word)]

BranchRs2 == prev.xregs[Rs2Of(last.word)]

C8_BgeAsClaimed ==
  /\ Executed("BGE") => BranchAsExpected(~Ref_LtS(BranchRs1, BranchRs2))
  /\ Executed("BGEU") => BranchAsExpected(~Ref_LtU(BranchRs1, BranchRs2))

LoadAddr == WrappingAdd(prev.xregs[Rs1Of(last.word)], Ref_ImmI(last.word))

LoadAsExpected(n, signed) ==
  RdOf(last.word) # 0 =>
    xregs[RdOf(last.word)] = Ref_Loaded(prev.mem, LoadAddr, n, signed)

StoreAddr == WrappingAdd(prev.xregs[Rs1Of(last.word)], Ref_ImmS(last.word))

StoreAsExpected(n) ==
  LET written == {AddrAdd(StoreAddr, k) : k \in 0..(n - 1)}
  IN /\ \A k \in 0..(n - 1) :
          ByteAt(mem, AddrAdd(StoreAddr, k)) =
            Ref_ByteOf(prev.xregs[Rs2Of(last.word)], k)
     /\ \A a \in ((DOMAIN mem.data) \cup (DOMAIN prev.mem.data)) \ written :
          ByteAt(mem, a) = ByteAt(prev.mem, a)
     /\ mem.len = prev.mem.len
     /\ xregs = prev.xregs

----------------------------------------------------------------------------
\* C3: Elf::from_bytes never aborts: for every byte slice, the empty one
\* included, it returns Ok or an error value
C3_NeverAborts == elf.status # "Panic"

----------------------------------------------------------------------------
AccessWidth(name) ==
  CASE name \in {"LB", "LBU", "SB"} -> 1
    [] name \in {"LH", "LHU", "SH"} -> 2
    [] OTHER -> 4

AccessAddr ==
  IF last.name \in {"SB", "SH", "SW"} THEN StoreAddr ELSE LoadAddr

\* a + n > len, the sum taken without wrap-around
Ref_PastEnd(m, a, n) ==
  Ref_LtU(m.len, AddrAdd(a, n)) \/ Ref_LtU(AddrAdd(a, n), a)

PastEndAccess ==
  /\ last.name \in {"LB", "LH", "LW", "LBU", "LHU", "SB", "SH", "SW"}
  /\ Ref_PastEnd(prev.mem, AccessAddr, AccessWidth(last.name))

\* C11 as claimed: a read or write of n bytes at a with a + n > len()
\* returns the OutOfRange error value instead of aborting, and leaves the
\* memory contents and its length unchanged.
C11_OutOfRangeAsClaimed ==
  PastEndAccess => outcome = "OutOfRange" /\ mem = prev.mem

----------------------------------------------------------------------------
\* the last step was a tick, and its fetch read 4 bytes inside the memory
TickFetched ==
  /\ nticks > 0
  /\ last.index = <<>>
  /\ ~Ref_PastEnd(prev.mem, prev.pc, 4)

\* the 32-bit word the tick fetched at the old PC
FetchedWord == SubSeq(Ref_Loaded(prev.mem, prev.pc, 4, FALSE), 1, 32)

\* no descriptor of the table has w & mask == reqd
Ref_NoMatch(w) ==
  \A i \in DOMAIN INSTRUCTIONS :
    \E b \in 1..32 : INSTRUCTIONS[i].mask[b] = 1 /\ w[b] # INSTRUCTIONS[i].reqd[b]

----------------------------------------------------------------------------
\* C17 as claimed: the status is Initializing at first, is Running (or
\* later Halted) once the memory is loaded, PC is set and ticks are being
\* executed, and only ever steps Initializing -> Running -> Halted.
C17_StatusAsClaimed ==
  /\ [](nticks = 0 => status \in {"Initializing", "Running"})
  /\ [](nticks > 0 => status \in {"Running", "Halted"})
  /\ [][status' # status =>
          <<status, status'>> \in {<<"Initializing", "Running">>,
                                   <<"Running", "Halted">>}]_vars

----------------------------------------------------------------------------
\* C18 as claimed: executing ECALL (0x00000073) returns an environment-call
\* trap and executing EBREAK (0x00100073) a breakpoint trap; neither
\* returns success.
C18_EcallAsClaimed ==
  /\ (TickFetched /\ FetchedWord = B32(\h0000, \h0073)) =>
       outcome = "EnvironmentCall"
  /\ (TickFetched /\ FetchedWord = B32(\h0010, \h0073)) =>
       outcome = "Breakpoint"

----------------------------------------------------------------------------
\* imm[31:12] = w[31:12], imm[11:0] = 0
Ref_ImmU(w) ==
  [i \in 1..64 |-> IF i <= 12 THEN 0 ELSE IF i <= 32 THEN w[i] ELSE w[32]]

\* C19 as claimed: AUIPC at address A writes X[rd] = A + imm (mod 2^64),
\* imm the sign-extended U-immediate and A the address of the AUIPC itself,
\* not the already advanced PC.
C19_AuipcAsClaimed ==
  (Executed("AUIPC") /\ RdOf(last.word) # 0) =>
    xregs[RdOf(last.word)] = WrappingAdd(last.addr, Ref_ImmU(last.word))

----------------------------------------------------------------------------
\* opcode 1100111 with funct3 000
IsJalr(w) == SubSeq(w, 1, 7) = <<1, 1, 1, 0, 0, 1, 1>> /\ SubSeq(w, 13, 15) = <<0, 0, 0>>

\* (X[rs1] + imm) & ~1 from the registers before the instruction
JalrTarget ==
  [WrappingAdd(prev.xregs[Rs1Of(last.word)], Ref_ImmI(last.word)) EXCEPT ![1] = 0]

----------------------------------------------------------------------------
\* the image has fewer than n bytes
Ref_Shorter(n) == Ref_LtU(image.len, FromNat(n, 64))

\* ident[i], for an image that has it
Ref_Ident(i) == ImageByte(image, FromNat(i, 64))

\* the defects of the image, by the name of the error kind that reports
\* each: the class byte is not 1 or 2, the magic is not 7F 45 4C 46, the
\* byte order is not 1 or 2, the image is shorter than the header of its
\* class (52 bytes for ELF32, 64 for ELF64)
Ref_Defects ==
  {k \in {"InvalidClass", "InvalidMagic", "UnknownEndianess", "InsufficantSize"} :
     CASE k = "InvalidClass" -> ~Ref_Shorter(5) /\ Ref_Ident(4) \notin {1, 2}
       [] k = "InvalidMagic" ->
            ~Ref_Shorter(4) /\ <<Ref_Ident(0), Ref_Ident(1), Ref_Ident(2), Ref_Ident(3)>>
                                 # <<127, 69, 76, 70>>
       [] k = "UnknownEndianess" -> ~Ref_Shorter(6) /\ Ref_Ident(5) \notin {1, 2}
       [] k = "InsufficantSize" ->
            /\ ~Ref_Shorter(5)
            /\ \/ Ref_Ident(4) = 1 /\ Ref_Shorter(52)
               \/ Ref_Ident(4) = 2 /\ Ref_Shorter(64)}

\* C12 as claimed: Elf::from_bytes reports a defect of the image by its
\* kind (InvalidClass, InvalidMagic, UnknownEndianness, InsufficientSize)
\* and returns Ok only if the image has none of these defects.
C12_ErrorKinds ==
  elf # NotParsed =>
    /\ elf.status = "Ok" => Ref_Defects = {}
    /\ Ref_Defects # {} => elf.status = "Err" /\ elf.kind \in Ref_Defects

----------------------------------------------------------------------------
\* the integer of size bytes at offset off of the image, bit by bit: byte
\* k of the field is its k-th lowest byte when ident[5] is 1 and its k-th
\* highest when ident[5] is 2
Ref_Field(off, size) ==
  [i \in 1..(8 * size) |->
     (ImageByte(image,
                FromNat(IF Ref_Ident(5) = 1 THEN off + (i - 1) \div 8
                        ELSE off + size - 1 - (i - 1) \div 8, 64))
        \div Pow2((i - 1) % 8)) % 2]

\* offset and size of the header fields in the ELF32 and the ELF64 layout
Ref_HeaderLayout(n) ==
  IF n = 4
  THEN [e_type |-> <<16, 2>>, e_machine |-> <<18, 2>>, e_version |-> <<20, 4>>,
        e_entry |-> <<24, 4>>, e_phoff |-> <<28, 4>>, e_shoff |-> <<32, 4>>,
        e_flags |-> <<36, 4>>, e_ehsize |-> <<40, 2>>, e_phentsize |-> <<42, 2>>,
        e_phnum |-> <<44, 2>>, e_shentsize |-> <<46, 2>>, e_shnum |-> <<48, 2>>,
        e_shstrndx |-> <<50, 2>>]
  ELSE [e_type |-> <<16, 2>>, e_machine |-> <<18, 2>>, e_version |-> <<20, 4>>,
        e_entry |-> <<24, 8>>, e_phoff |-> <<32, 8>>, e_shoff |-> <<40, 8>>,
        e_flags |-> <<48, 4>>, e_ehsize |-> <<52, 2>>, e_phentsize |-> <<54, 2>>,
        e_phnum |-> <<56, 2>>, e_shentsize |-> <<58, 2>>, e_shnum |-> <<60, 2>>,
        e_shstrndx |-> <<62, 2>>]

HeaderParsed(n) == ehdr # NotParsed /\ ehdr.size = n

----------------------------------------------------------------------------
RECURSIVE Ref_BytesAt(_, _, _)
\* the bits of the size bytes of the image from the 64-bit offset base + off
\* on, lowest byte of the field first
Ref_BytesAt(base, off, size) ==
  IF size = 0 THEN <<>>
  ELSE FromNat(ImageByte(image,
                         WrappingAdd(base,
                                     FromNat(IF Ref_Ident(5) = 1 THEN off
                                             ELSE off + size - 1, 64))), 8)
       \o Ref_BytesAt(base, IF Ref_Ident(5) = 1 THEN off + 1 ELSE off,
                      size - 1)

\* offset and size of the fields of a program header and a section header
Ref_PhLayout(n) ==
  IF n = 4
  THEN [p_type |-> <<0, 4>>, p_offset |-> <<4, 4>>, p_vaddr |-> <<8, 4>>,
        p_paddr |-> <<12, 4>>, p_filesz |-> <<16, 4>>, p_memsz |-> <<20, 4>>,
        p_flags |-> <<24, 4>>, p_align |-> <<28, 4>>]
  ELSE [p_type |-> <<0, 4>>, p_flags |-> <<4, 4>>, p_offset |-> <<8, 8>>,
        p_vaddr |-> <<16, 8>>, p_paddr |-> <<24, 8>>, p_filesz |-> <<32, 8>>,
        p_memsz |-> <<40, 8>>, p_align |-> <<48, 8>>]

Ref_ShLayout(n) ==
  [sh_name |-> <<0, 4>>, sh_type |-> <<4, 4>>, sh_flags |-> <<8, n>>,
   sh_addr |-> <<8 + n, n>>, sh_offset |-> <<8 + 2 * n, n>>,
   sh_size |-> <<8 + 3 * n, n>>, sh_link |-> <<8 + 4 * n, 4>>,
   sh_info |-> <<12 + 4 * n, 4>>, sh_addralign |-> <<16 + 4 * n, n>>,
   sh_entsize |-> <<16 + 5 * n, n>>]

\* the table entry whose first byte is at the 64-bit offset base
Ref_Entry(base, layout) ==
  [f \in DOMAIN layout |-> Ref_BytesAt(base, layout[f][1], layout[f][2])]

\* offset + i * entsize as a number of 64 bits (i * entsize < 2^31)
Ref_EntryOffset(offset, i, entsize) ==
  WrappingAdd(ZeroExtend(offset, 64), FromNat(i * ToNat(entsize), 64))

\* the table is the list of its count entries, entry i read at
\* offset + i * entsize, a sum that does not wrap
Ref_TableIs(table, offset, entsize, count, layout) ==
  /\ Len(table) = ToNat(count)
  /\ \A i \in 1..Len(table) :
       /\ ~AddOverflows(ZeroExtend(offset, 64),
                        FromNat((i - 1) * ToNat(entsize), 64))
       /\ table[i] = Ref_Entry(Ref_EntryOffset(offset, i - 1, entsize), layout)

ElfParsedOk == elf # NotParsed /\ elf.status = "Ok"

ElfWordSize == IF elf.value.class = EI_CLASS_32 THEN 4 ELSE 8

\* C14: when Elf::from_bytes succeeds, the program-header list has exactly
\* e_phnum entries and entry i is the program header parsed from the bytes
\* starting at e_phoff + i * e_phentsize; likewise the section-header list
\* has exactly e_shnum entries and entry i is parsed from
\* e_shoff + i * e_shentsize, without wrap-around of the offset computation,
\* also for the 32-bit class.
C14_TablesAsClaimed ==
  ElfParsedOk =>
    /\ Ref_TableIs(elf.value.pheaders, elf.value.header["e_phoff"],
                   elf.value.header["e_phentsize"],
                   elf.value.header["e_phnum"], Ref_PhLayout(ElfWordSize))
    /\ Ref_TableIs(elf.value.sheaders, elf.value.header["e_shoff"],
                   elf.value.header["e_shentsize"],
                   elf.value.header["e_shnum"], Ref_ShLayout(ElfWordSize))

----------------------------------------------------------------------------
\* the loader has processed every program header of the parsed image
Loaded == ElfParsedOk /\ mem.len = MemLen

IsLoad(j) == elf.value.pheaders[j]["p_type"] = FromNat(1, 32)

FileSz(j) == ToNat(elf.value.pheaders[j]["p_filesz"])

MemSz(j) == ToNat(elf.value.pheaders[j]["p_memsz"])

\* p.paddr + k and file[p.offset + k] of program header j
Ref_SegAddr(j, k) ==
  AddrAdd(ZeroExtend(elf.value.pheaders[j]["p_paddr"], 64), k)

Ref_FileByte(j, k) ==
  ImageByte(image, AddrAdd(ZeroExtend(elf.value.pheaders[j]["p_offset"], 64), k))

\* address a is one of the filesz bytes that PT_LOAD header j is copied to
Ref_Covers(j, a) ==
  IsLoad(j) /\ \E k \in 0..(FileSz(j) - 1) : Ref_SegAddr(j, k) = a

\* every byte of the memory that was written belongs to a PT_LOAD header
OnlyLoadWrites ==
  \A a \in DOMAIN mem.data :
    \E j \in 1..Len(elf.value.pheaders) : Ref_Covers(j, a)

\* C15 as stated: after the loader has processed all program headers, for
\* every PT_LOAD header p and every i < p.filesz,
\* memory[p.paddr + i] = file[p.offset + i]; every memory byte in
\* [p.paddr + p.filesz, p.paddr + p.memsz) is 0; headers of another type
\* cause no memory byte to be written.
C15_LoaderAsClaimed ==
  Loaded =>
    /\ \A j \in 1..Len(elf.value.pheaders) :
         IsLoad(j) =>
           /\ \A k \in 0..(FileSz(j) - 1) :
                ByteAt(mem, Ref_SegAddr(j, k)) = Ref_FileByte(j, k)
           /\ \A k \in FileSz(j)..(MemSz(j) - 1) :
                ByteAt(mem, Ref_SegAddr(j, k)) = 0
    /\ OnlyLoadWrites

\* C15, amended: the file bytes of a PT_LOAD header are in memory unless a
\* later PT_LOAD header copied its own file bytes over them; the bytes from
\* filesz to memsz are 0 unless some PT_LOAD header copied file bytes there;
\* headers of another type cause no memory byte to be written.
C15_Loader ==
  Loaded =>
    /\ \A j \in 1..Len(elf.value.pheaders) :
         IsLoad(j) =>
           /\ \A k \in 0..(FileSz(j) - 1) :
                \/ \E l \in (j + 1)..Len(elf.value.pheaders) :
                     Ref_Covers(l, Ref_SegAddr(j, k))
                \/ ByteAt(mem, Ref_SegAddr(j, k)) = Ref_FileByte(j, k)
           /\ \A k \in FileSz(j)..(MemSz(j) - 1) :
                \/ \E l \in 1..Len(elf.value.pheaders) :
                     Ref_Covers(l, Ref_SegAddr(j, k))
                \/ ByteAt(mem, Ref_SegAddr(j, k)) = 0
    /\ OnlyLoadWrites

\* loaded: a PT_LOAD segment with file bytes and BSS bytes, and a header of
\* another type
C15_Witness ==
  /\ Loaded /\ Len(elf.value.pheaders) = 2
  /\ IsLoad(1) /\ FileSz(1) = 4 /\ MemSz(1) = 8
  /\ ~IsLoad(2) /\ FileSz(2) = 4
  /\ ByteAt(mem, Ref_SegAddr(1, 0)) # 0
  /\ ByteAt(mem, Ref_SegAddr(1, 3)) = Ref_FileByte(1, 3)
  /\ Cardinality(DOMAIN mem.data) = 4

----------------------------------------------------------------------------
\* v shifted right by n with the vacated high bits filled with bit 63 of v
Ref_Sra(v, n) == [i \in 1..64 |-> IF i + n <= 64 THEN v[i + n] ELSE v[64]]

\* the 6-bit shamt of a shift-immediate word: bits 20..25
Ref_Shamt(w) == ToNat(SubSeq(w, 21, 26))

\* C21 as claimed: SRAI rd,rs1,shamt writes X[rd] = X[rs1] arithmetically
\* shifted right by the 6-bit shamt; with X[1] = 0xFFFFFFFFFFFFFFF0,
\* SRAI x2,x1,4 gives X[2] = 0xFFFFFFFFFFFFFFFF.
C21_SraiAsClaimed ==
  Executed("SRAI") =>
    /\ RdOf(last.word) # 0 =>
         xregs[RdOf(last.word)] =
           Ref_Sra(prev.xregs[Rs1Of(last.word)], Ref_Shamt(last.word))
    /\ (last.word = B32(\h4040, \hD113)
          /\ prev.xregs[1] = B64(\hFFFF, \hFFFF, \hFFFF, \hFFF0)) =>
         xregs[2] = Ones(64)

----------------------------------------------------------------------------
\* C22: for each of the I, S, B, U, J format parsers, every bit of the
\* 64-bit immediate above the format's encoded range (above bit 11 for I
\* and S, bit 12 for B, bit 20 for J, bit 31 for U) equals bit 31 of the
\* word.
C22_SignExtension ==
  "parse" \in wphase =>
    /\ \A i \in 12..63 : Bit(fmt.I, i) = Bit(word, 31)
    /\ \A i \in 12..63 : Bit(fmt.S, i) = Bit(word, 31)
    /\ \A i \in 13..63 : Bit(fmt.B, i) = Bit(word, 31)
    /\ \A i \in 21..63 : Bit(fmt.J, i) = Bit(word, 31)
    /\ \A i \in 32..63 : Bit(fmt.U, i) = Bit(word, 31)

\* parsed: a word with bit 31 set and some encoded bits clear
C22_Witness ==
  /\ "parse" \in wphase /\ Bit(word, 31) = 1
  /\ Bit(word, 30) = 0 /\ Bit(word, 7) = 0 /\ Bit(word, 20) = 0
  /\ Bit(fmt.I, 63) = 1 /\ Bit(fmt.S, 12) = 1 /\ Bit(fmt.B, 13) = 1
  /\ Bit(fmt.J, 21) = 1 /\ Bit(fmt.U, 32) = 1
  /\ Bit(fmt.I, 10) = 0 /\ Bit(fmt.B, 11) = 0 /\ Bit(fmt.J, 11) = 0

\* C23: bit 0 of the B immediate and of the J immediate is 0, and the
\* encoded bits are placed as w[8:11] -> imm[1:4], w[25:30] -> imm[5:10],
\* w[7] -> imm[11], w[31] -> imm[12] for B and w[21:30] -> imm[1:10],
\* w[20] -> imm[11], w[12:19] -> imm[12:19], w[31] -> imm[20] for J.
C23_BranchJumpBits ==
  "parse" \in wphase =>
    /\ Bit(fmt.B, 0) = 0
    /\ \A k \in 1..4 : Bit(fmt.B, k) = Bit(word, 7 + k)
    /\ \A k \in 5..10 : Bit(fmt.B, k) = Bit(word, 20 + k)
    /\ Bit(fmt.B, 11) = Bit(word, 7)
    /\ Bit(fmt.B, 12) = Bit(word, 31)
    /\ Bit(fmt.J, 0) = 0
    /\ \A k \in 1..10 : Bit(fmt.J, k) = Bit(word, 20 + k)
    /\ Bit(fmt.J, 11) = Bit(word, 20)
    /\ \A k \in 12..19 : Bit(fmt.J, k) = Bit(word, k)
    /\ Bit(fmt.J, 20) = Bit(word, 31)

\* parsed: the word with only bit 7 set, whose B immediate is 2^11, and
\* whose J immediate is 0
C23_Witness ==
  /\ "parse" \in wphase
  /\ word = [i \in 1..32 |-> IF i = 8 THEN 1 ELSE 0]
  /\ fmt.B = [i \in 1..64 |-> IF i = 12 THEN 1 ELSE 0]
  /\ fmt.J = Zeros(64)

----------------------------------------------------------------------------
\* the positions (from 1) of the delimiters in the data of the string table
Ref_Delims == {i \in 1..Len(tab.data) : tab.data[i] = tab.delim}

\* the number of delimiter-separated records
Ref_Records == Cardinality(Ref_Delims) + 1

\* the offset at which record n starts: 0, or just after the n-th delimiter
Ref_RecordStart(n) ==
  IF n = 0 THEN 0
  ELSE CHOOSE p \in Ref_Delims : Cardinality({q \in Ref_Delims : q < p}) = n - 1

\* the offset of the first delimiter at or after offset o, or the length
Ref_RecordEnd(o) ==
  CHOOSE e \in o..Len(tab.data) :
    /\ e = Len(tab.data) \/ tab.data[e + 1] = tab.delim
    /\ \A j \in o..(e - 1) : tab.data[j + 1] # tab.delim

\* the bytes from offset o up to the next delimiter or the end
Ref_From(o) == SubSeq(tab.data, o + 1, Ref_RecordEnd(o))

\* C24: get_bytes(n) returns the n-th delimiter-separated record of the
\* data and None when there are fewer than n + 1 records; get_bytes_off(o)
\* for o <= len returns the bytes from o up to the first delimiter at or
\* after o, or up to the end; no returned record contains the delimiter;
\* get_bytes_off at the start offset of the n-th record equals get_bytes(n).
C24_Strtab ==
  tab.kind = "Strtab" =>
    /\ call.op = "get_bytes" =>
         call.result = IF call.arg < Ref_Records
                       THEN Some(Ref_From(Ref_RecordStart(call.arg)))
                       ELSE None
    /\ (call.op = "get_bytes_off" /\ call.arg <= Len(tab.data)) =>
         call.result = Some(Ref_From(call.arg))
    /\ call.result.status = "Some" =>
         \A i \in 1..Len(call.result.value) : call.result.value[i] # tab.delim
    /\ \A n \in 0..(Ref_Records - 1) :
         (call.op = "get_bytes_off" /\ call.arg = Ref_RecordStart(n)) =>
           call.result = Strtab_get_bytes(tab, n)

\* "A\0BB" with delimiter 0: get_bytes_off(2) is record 1, "BB"
C24_Witness ==
  /\ tab = Strtab_new(0, <<65, 0, 66, 66>>)
  /\ call.op = "get_bytes_off" /\ call.arg = 2
  /\ call.result = Some(<<66, 66>>)
  /\ Strtab_get_bytes(tab, 1) = Some(<<66, 66>>)
  /\ Strtab_get_bytes(tab, 2) = None

----------------------------------------------------------------------------
\* sizeof(Symbol) and the number of whole records in the symbol table data
Ref_SymbolSize == IF tab.n = 4 THEN 16 ELSE 32

Ref_SymbolCount == Len(tab.data.img.head) \div Ref_SymbolSize

\* the integer of size bytes at offset off of the symbol table data, in the
\* byte order of the table
Ref_SymField(off, size) ==
  [i \in 1..(8 * size) |->
     (tab.data.img.head[1 + (IF tab.endianness = 1 THEN off + (i - 1) \div 8
                             ELSE off + size - 1 - (i - 1) \div 8)]
        \div Pow2((i - 1) % 8)) % 2]

\* the record whose fields follow one another from offset off on
Ref_Symbol(off) ==
  [st_name |-> Ref_SymField(off, 4),
   st_value |-> Ref_SymField(off + 4, tab.n),
   st_size |-> Ref_SymField(off + 4 + tab.n, tab.n),
   st_info |-> Ref_SymField(off + 4 + 2 * tab.n, 1),
   st_other |-> Ref_SymField(off + 5 + 2 * tab.n, 1),
   st_shndx |-> Ref_SymField(off + 6 + 2 * tab.n, 2)]

\* C25 as claimed: for every symbol table data, also of a length that is
\* not a multiple of the record size, get_symbol(i) returns the record
\* parsed at offset i * sizeof(Symbol) for every i < len() and None for
\* every i >= len(), so that the iteration from 0 until None ends after
\* exactly len() symbols without aborting.
C25_SymbolsAsClaimed ==
  (tab.kind = "Symtab" /\ call.op = "get_symbol") =>
    /\ Symtab_len(tab) = Ref_SymbolCount
    /\ call.result =
         IF call.arg < Ref_SymbolCount
         THEN Some(Ref_Symbol(call.arg * Ref_SymbolSize))
         ELSE None


----------------------------------------------------------------------------
\* C26: for every descriptor of the instruction table, reqd & mask = reqd
\* and reqd | mask = mask: every required bit lies inside the mask.
C26_ValidMasks ==
  "decode" \in wphase =>
    /\ valid_masks
    /\ \A i \in DOMAIN INSTRUCTIONS : \A b \in 0..31 :
         Bit(INSTRUCTIONS[i].reqd, b) = 1 => Bit(INSTRUCTIONS[i].mask, b) = 1

\* the required bits of SRAI, which reach into the upper field of the word,
\* were decoded and matched their own descriptor
C26_Witness ==
  /\ "decode" \in wphase
  /\ Len(found) = 1
  /\ INSTRUCTIONS[found[1]].name = "SRAI"
  /\ word = INSTRUCTIONS[found[1]].reqd

\* C27: no two descriptors of the instruction table have the same mnemonic.
C27_UniqueNames ==
  "decode" \in wphase =>
    /\ unique_instruction_names
    /\ \A i \in 1..Len(found) :
         names_count(INSTRUCTIONS[found[i]].name) = 1

\* a decoded word whose descriptor is the only one of its mnemonic
C27_Witness ==
  /\ "decode" \in wphase
  /\ Len(found) = 1
  /\ INSTRUCTIONS[found[1]].name = "LUI"
  /\ names_count("LUI") = 1


----------------------------------------------------------------------------
\* the value of bits 0..5 of v
Ref_Low6(v) ==
  v[1] + 2 * v[2] + 4 * v[3] + 8 * v[4] + 16 * v[5] + 32 * v[6]

\* v shifted left by n, zeros coming in at the bottom
Ref_Sll(v, n) == [i \in 1..64 |-> IF i > n THEN v[i - n] ELSE 0]

\* v shifted right by n, zeros coming in at the top
Ref_Srl(v, n) == [i \in 1..64 |-> IF i + n <= 64 THEN v[i + n] ELSE 0]

\* what a register-register shift of the given name has to produce
Ref_Shift(name, v, n) ==
  CASE name = "SLL" -> Ref_Sll(v, n)
    [] name = "SRL" -> Ref_Srl(v, n)
    [] name = "SRA" -> Ref_Sra(v, n)

ShiftExecuted == last.name \in {"SLL", "SRL", "SRA"} /\ outcome = "Ok"

ShiftRs1 == prev.xregs[Rs1Of(last.word)]

ShiftRs2 == prev.xregs[Rs2Of(last.word)]

----------------------------------------------------------------------------
\* bits 0..6 of w are the opcode and bits 12..14 the funct3 (LSB first)
Ref_HasOpcode(w, opcode) == SubSeq(w, 1, 7) = opcode

Ref_HasFunct3(w, funct3) == SubSeq(w, 13, 15) = funct3

\* opcode 0000011 with funct3 011
Ref_IsLD(w) ==
  Ref_HasOpcode(w, <<1, 1, 0, 0, 0, 0, 0>>) /\ Ref_HasFunct3(w, <<1, 1, 0>>)

\* opcode 0000011 with funct3 110
Ref_IsLWU(w) ==
  Ref_HasOpcode(w, <<1, 1, 0, 0, 0, 0, 0>>) /\ Ref_HasFunct3(w, <<0, 1, 1>>)

\* opcode 0100011 with funct3 011
Ref_IsSD(w) ==
  Ref_HasOpcode(w, <<1, 1, 0, 0, 0, 1, 0>>) /\ Ref_HasFunct3(w, <<1, 1, 0>>)

\* the n bytes at X[rs1] + imm (I or S immediate of the fetched word) lie
\* inside the memory
WideAccessInRange(imm, n) ==
  ~Ref_PastEnd(prev.mem,
               WrappingAdd(prev.xregs[Rs1Of(FetchedWord)], imm), n)

\* C29 as claimed: every word with opcode 0000011 and funct3 011 (resp.
\* 110) decodes to LD (resp. LWU) and loads 8 bytes (resp. 4 bytes,
\* zero-extended) from X[rs1] + imm into X[rd]; every word with opcode
\* 0100011 and funct3 011 decodes to SD and stores the 8 bytes of X[rs2],
\* least significant first, at X[rs1] + imm.
C29_WideAccessAsClaimed ==
  /\ (TickFetched /\ Ref_IsLD(FetchedWord)
        /\ WideAccessInRange(Ref_ImmI(FetchedWord), 8)) =>
       /\ Executed("LD")
       /\ LoadAsExpected(8, FALSE)
  /\ (TickFetched /\ Ref_IsLWU(FetchedWord)
        /\ WideAccessInRange(Ref_ImmI(FetchedWord), 4)) =>
       /\ Executed("LWU")
       /\ LoadAsExpected(4, FALSE)
  /\ (TickFetched /\ Ref_IsSD(FetchedWord)
        /\ WideAccessInRange(Ref_ImmS(FetchedWord), 8)) =>
       /\ Executed("SD")
       /\ StoreAsExpected(8)


----------------------------------------------------------------------------
\* the last call was a read of the place, type and byte order of the last
\* write that succeeded
ReadOfWritten ==
  /\ call.op = "read"
  /\ outcome = "Ok"
  /\ call.wrote # <<>>
  /\ call.wrote[1].be = call.be
  /\ call.wrote[1].size = call.size
  /\ call.wrote[1].addr = call.addr

\* the addresses a .. a + size - 1 of the last call
CallRange == {AddrAdd(call.addr, k) : k \in 0..(call.size - 1)}

\* C30: for each width of 16, 32, 64, 128 bits and each endianness, a typed
\* write of v at an in-range address a followed by the typed read of the
\* same width and endianness at a returns v; the little-endian write stores
\* the least significant byte at a, the big-endian write the most
\* significant byte at a; bytes outside [a, a + W/8) are unchanged.
C30_TypedRoundTrip ==
  /\ ReadOfWritten => call.result = call.wrote[1].value
  /\ (call.op = "write" /\ outcome = "Ok") =>
       /\ \A k \in 0..(call.size - 1) :
            ByteAt(mem, AddrAdd(call.addr, k)) =
              Ref_ByteOf(call.value,
                         IF call.be THEN call.size - 1 - k ELSE k)
       /\ \A a \in ((DOMAIN mem.data) \cup (DOMAIN prev.mem.data)) \ CallRange :
            ByteAt(mem, a) = ByteAt(prev.mem, a)
       /\ mem.len = prev.mem.len

\* a big-endian u128 written at address 1 and read back: the byte at 1 is
\* the most significant one, the byte at 16 the least significant one
C30_Witness ==
  /\ ReadOfWritten
  /\ call.be
  /\ call.size = 16
  /\ call.addr = FromNat(1, 64)
  /\ call.result = CountingValue(16, 254)
  /\ ByteAt(mem, FromNat(1, 64)) = 239
  /\ ByteAt(mem, FromNat(16, 64)) = 254
  /\ ByteAt(mem, FromNat(0, 64)) = 160

====
